---- MODULE Spec2Model ----
(***************************************************************************)
(* Verification model of homebridge-loxone-proxy: the accessory naming     *)
(* (LoxonePlatform.generateUniqueName) and the camera pipeline (PreBuffer, *)
(* RecordingDelegate, streamingDelegate).                                  *)
(*                                                                         *)
(* Strings are sequences of one-character strings, so that sanitizing,     *)
(* prefixing and suffixing are computed character by character.  Times are *)
(* milliseconds, as in the source.                                         *)
(***************************************************************************)
EXTENDS Integers, Sequences, FiniteSets, TLC

VARIABLES
  \* ---- LoxonePlatform (name resolution) ----
  usedNames,          \* Set<string>: names issued to top-level accessories
  accessoryNameMap,   \* Map<uuid, name>
  nameCalls,          \* observer: the generateUniqueName calls of this session, in order,
                      \* each with its uuid, isSubItem, sanitized room and base,
                      \* computed base name and result
  mapPass,            \* where the platform is: "none" before didFinishLaunching,
                      \* "waitForLoxoneConfig" inside LoxoneInit, "mapLoxoneItems" once
                      \* a mapping pass has started
  passLog             \* observer: one record per run of mapLoxoneItems, with what the
                      \* run found on entry and what its first item finds

VARIABLES
  \* ---- LoxonePlatform (the accessories of a mapping pass) ----
  accessories,        \* the UUIDs of the cached accessories the host restored
  mappedAccessories,  \* Set<string>: the UUIDs mapped since the last cleanup
  passes              \* per run of mapLoxoneItems: the items its loop has still to
                      \* visit, where it is, and (observer) the UUIDs its
                      \* removeUnmappedAccessories unregistered

accVars == <<accessories, mappedAccessories, passes>>

nameVars == <<usedNames, accessoryNameMap, nameCalls, mapPass, passLog, accVars>>

VARIABLES
  \* ---- the clock ----
  now,                \* Date.now(), in ms
  \* ---- PreBuffer ----
  prebufferDuration,  \* constructor argument prebufferDurationMs
  prebufferFmp4,      \* PrebufferFmp4[]: the retained atoms, each with type and time
  prebufferSession,   \* Mp4Session handle (the number of its process), 0 while unset
  spawned,            \* how many transcoding subprocesses startPreBuffer has spawned
  startCalls,         \* the startPreBuffer calls: where each is and what it returned
  arrived,            \* observer: every atom handleAtom was given, in arrival order
  consumers           \* the replay streams opened by getVideo

preVars == <<prebufferDuration, prebufferFmp4, prebufferSession, spawned, startCalls,
             arrived, consumers>>

VARIABLES
  \* ---- RecordingDelegate.consumeFragments, one stream ----
  fragIn,             \* the atoms the generator has delivered so far (their types);
                      \* an atom is identified by its position in this sequence
  fragMoof,           \* moof: the position of the held moof atom, 0 for null
  fragPending,        \* pending: the atoms accumulated (header and data of each)
  fragPackets,        \* observer: the buffers yielded, each the sequence of its atoms
  \* ---- parseFragmentedMP4 on one readable ----
  parseStream,        \* the boxes the writer meant to send: the payload length of each
  parseCut,           \* how many bytes the readable delivers before it ends
  parsePos,           \* how many bytes the parser has read
  parseYield,         \* observer: the atoms yielded, each with the bytes of header and
                      \* data it holds and the payload length its header declares
  parseEnd            \* "idle", "reading", then "return" (the generator completed),
                      \* "throw" (it threw into the loop consuming it) or "pending"
                      \* (it awaits a read that never settles)

parseVars == <<parseStream, parseCut, parsePos, parseYield, parseEnd>>

VARIABLES
  \* ---- parseFragmentedMP4 on the bytes of one readable ----
  byteBoxes,          \* the boxes the writer sends, each the sequence of its bytes
  bytePushed,         \* how many of their bytes the readable has received
  byteEnded,          \* whether the readable has received its end
  byteRead,           \* how many bytes the parser has taken out of the readable
  byteHeader,         \* the header of the box whose data is being read
  byteAtoms,          \* observer: the atoms yielded, [header, length, type, data]
  bytePc              \* "idle", "header" (line 103), "data" (line 109), then "return"
                      \* or "throw"

byteVars == <<byteBoxes, bytePushed, byteEnded, byteRead, byteHeader, byteAtoms, bytePc>>

VARIABLES
  \* ---- listenServer ----
  listenCalls         \* per call of listenServer: its position, the port of the attempt
                      \* under way, the failed attempts so far, and the port returned

fragVars == <<fragIn, fragMoof, fragPending, fragPackets, parseVars, byteVars, listenCalls>>

VARIABLES
  \* ---- RecordingDelegate: the lifecycle of the recording streams ----
  currentRecordingConfiguration,  \* TRUE iff a recording configuration is set
  delegatePreBuffer,              \* this.preBuffer: TRUE iff the PreBuffer was created
  delegatePreBufferSession,       \* this.preBufferSession: TRUE iff it was assigned
  streamAbortControllers,         \* streamId -> the generator whose controller is held, 0 for none
  activeFFmpegProcesses,          \* streamId -> the generator whose subprocess is held, 0 for none
  streams                         \* the generators handleRecordingStreamRequest returned, in
                                  \* call order: position in the code, abort signal,
                                  \* subprocess, and (observer) the packets yielded

recVars == <<currentRecordingConfiguration, delegatePreBuffer, delegatePreBufferSession,
             streamAbortControllers, activeFFmpegProcesses, streams>>

VARIABLES
  \* ---- streamingDelegate: the streaming sessions ----
  pendingSessions,    \* the session ids that have a SessionInfo
  ongoingSessions,    \* session id -> the ActiveSession held for it, 0 for none
  sessionObjects,     \* the ActiveSession objects startStream created, in creation order
  startReplies,       \* observer: the errors startStream reported, per session id
  startRequests,      \* observer: the startStream invocations, per session id
  live,               \* observer: session id -> started and not stopped since
  stopCalls,          \* observer: the number of stopStream invocations and the last one
  streamError         \* observer: TRUE iff a stopStream invocation raised an error

streamVars == <<pendingSessions, ongoingSessions, sessionObjects, startReplies,
                startRequests, live,
                stopCalls, streamError>>

VARIABLES
  \* ---- streamingDelegate: the snapshot cache ----
  cachedSnapshot,     \* the cached buffer (the number of the call that captured it), 0 for null
  cachedAt,           \* the cached timestamp
  snapshots           \* the getSnapshot calls in call order: what each saw and returned

snapVars == <<cachedSnapshot, cachedAt, snapshots>>

VARIABLES
  \* ---- CameraMotionSensor ----
  polling,              \* this.polling
  MotionDetected,       \* this.state.MotionDetected
  lastTriggerTime,      \* this.lastTriggerTime
  lastSnapshotBuffer,   \* the snapshot kept for the next comparison, 0 for undefined
  lastSnapshotSize,     \* the snapshot whose size is kept, 0 for undefined
  consecutiveFailures,  \* this.consecutiveFailures
  pollTimers,           \* the due times of the pending setTimeout(() => this.poll())
  pollCycles,           \* the poll cycles in start order: what each found and did
  motionEvents          \* observer: the triggerMotion and resetMotion calls, in order,
                        \* each with the time it was made at

motionVars == <<polling, MotionDetected, lastTriggerTime, lastSnapshotBuffer,
                lastSnapshotSize, consecutiveFailures, pollTimers, pollCycles,
                motionEvents>>

vars == <<nameVars, now, preVars, fragVars, recVars, streamVars, snapVars, motionVars>>

(***************************************************************************)
(* Characters and strings                                                  *)
(***************************************************************************)
UpperLetters == {"K", "L", "U"}
LowerLetters == {"k", "l", "u", "n", "o", "w", "a", "m", "e", "d"}
Digits == {"0", "1", "2", "3", "4", "5", "6", "7", "8", "9"}
WhiteSpace == {" ", "\t"}

\* \p{L}
IsLetter(c) == c \in UpperLetters \cup LowerLetters
\* \p{N}
IsDigit(c) == c \in Digits
\* \s
IsSpace(c) == c \in WhiteSpace

\* String.prototype.toLowerCase, per character
LowerChar(c) ==
  CASE c = "K" -> "k"
    [] c = "L" -> "l"
    [] c = "U" -> "u"
    [] OTHER -> c

toLowerCase(s) == [i \in 1..Len(s) |-> LowerChar(s[i])]

\* String.prototype.startsWith
startsWith(s, p) ==
  /\ Len(p) <= Len(s)
  /\ \A i \in 1..Len(p) : s[i] = p[i]

\* index of the first occurrence of character c in s at or after position from; 0 if none
RECURSIVE IndexFrom(_, _, _)
IndexFrom(s, c, from) ==
  IF from > Len(s) THEN 0
  ELSE IF s[from] = c THEN from
  ELSE IndexFrom(s, c, from + 1)

\* s.replace(/\((.*?)\)/g, '$1'): each "(" with the nearest ")" after it loses both
\* parentheses and keeps the text in between; scanning resumes after the ")"
RECURSIVE UnwrapParens(_)
UnwrapParens(s) ==
  LET open == IndexFrom(s, "(", 1)
      close == IF open = 0 THEN 0 ELSE IndexFrom(s, ")", open + 1)
  IN IF open = 0 \/ close = 0 THEN s
     ELSE SubSeq(s, 1, open - 1) \o SubSeq(s, open + 1, close - 1)
          \o UnwrapParens(SubSeq(s, close + 1, Len(s)))

\* s.replace(/[^\p{L}\p{N}\s']/gu, '')
KeepAllowed(s) == SelectSeq(s, LAMBDA c : IsLetter(c) \/ IsDigit(c) \/ IsSpace(c) \/ c = "'")

\* s.replace(/\s+/g, ' ')
RECURSIVE CollapseSpaces(_)
CollapseSpaces(s) ==
  IF s = <<>> THEN <<>>
  ELSE IF IsSpace(Head(s))
       THEN IF Len(s) > 1 /\ IsSpace(s[2])
            THEN CollapseSpaces(Tail(s))
            ELSE <<" ">> \o CollapseSpaces(Tail(s))
       ELSE <<Head(s)>> \o CollapseSpaces(Tail(s))

\* String.prototype.trim
RECURSIVE TrimLeft(_)
TrimLeft(s) == IF s # <<>> /\ IsSpace(Head(s)) THEN TrimLeft(Tail(s)) ELSE s
RECURSIVE TrimRight(_)
TrimRight(s) ==
  IF s # <<>> /\ IsSpace(s[Len(s)]) THEN TrimRight(SubSeq(s, 1, Len(s) - 1)) ELSE s
trim(s) == TrimRight(TrimLeft(s))

\* the sanitizer of generateUniqueName
clean(s) == trim(CollapseSpaces(KeepAllowed(UnwrapParens(s))))

\* decimal representation of a positive integer (template literal ${counter})
RECURSIVE NumToStr(_)
NumToStr(n) ==
  LET d == <<"0", "1", "2", "3", "4", "5", "6", "7", "8", "9">>
  IN IF n < 10 THEN <<d[n + 1]>> ELSE NumToStr(n \div 10) \o <<d[(n % 10) + 1]>>

Unknown == <<"U", "n", "k", "n", "o", "w", "n">>
Unnamed == <<"U", "n", "n", "a", "m", "e", "d">>

(***************************************************************************)
(* The clock                                                               *)
(***************************************************************************)
\* the clock moves to a later instant (Date.now() never goes back here)
Tick(instants, preserved) ==
  \E t \in instants :
    /\ t > now
    /\ now' = t
    /\ UNCHANGED preserved

(***************************************************************************)
(* PreBuffer (src/homekit/hksv/Prebuffer.ts)                               *)
(***************************************************************************)
\* const MAX_FRAGMENTS = 300, scaled down so that the count bound is reached
MAX_FRAGMENTS == 3

\* most atoms the transcoding subprocess delivers
MaxAtoms == 4
\* most startPreBuffer calls
MaxStarts == 2
\* most replay streams opened
MaxConsumers == 1

\* the instants, in ms, at which the clock is read
PreBufferInstants == {0, 500, 800, 1200, 1800}
\* prebufferDurationMs given to the constructor
PrebufferDurations == {1000}
\* requestedPrebuffer given to getVideo
RequestedPrebuffers == {600, 4000}

\* the n-th box of the stream ffmpeg writes with
\* -movflags frag_keyframe+empty_moov+default_base_moof: ftyp, moov, then moof/mdat pairs
AtomType(n) ==
  IF n = 1 THEN "ftyp"
  ELSE IF n = 2 THEN "moov"
  ELSE IF n % 2 = 1 THEN "moof" ELSE "mdat"

PreBufferIdle ==
  /\ prebufferDuration \in PrebufferDurations
  /\ prebufferFmp4 = <<>>
  /\ prebufferSession = 0
  /\ spawned = 0
  /\ startCalls = <<>>
  /\ arrived = <<>>
  /\ consumers = <<>>

\* startPreBuffer up to its await: return the existing session, or create the server
\* and wait for listenServer
StartPreBufferBegin ==
  /\ Len(startCalls) < MaxStarts
  /\ startCalls' = Append(startCalls,
       IF prebufferSession # 0
       THEN [pc |-> "returned", ret |-> prebufferSession]
       ELSE [pc |-> "listen", ret |-> 0])
  /\ UNCHANGED <<nameVars, fragVars, recVars, streamVars, snapVars, motionVars, now, prebufferDuration, prebufferFmp4, prebufferSession,
                 spawned, arrived, consumers>>

\* startPreBuffer after listenServer resolved: spawn ffmpeg, store and return the session
StartPreBufferResume ==
  \E c \in 1..Len(startCalls) :
    /\ startCalls[c].pc = "listen"
    /\ spawned' = spawned + 1
    /\ prebufferSession' = spawned + 1
    /\ startCalls' = [startCalls EXCEPT ![c] = [pc |-> "returned", ret |-> spawned + 1]]
    /\ UNCHANGED <<nameVars, fragVars, recVars, streamVars, snapVars, motionVars, now, prebufferDuration, prebufferFmp4, arrived, consumers>>

\* mutant: fragments as old as the window are evicted too
EvictByAge_Inclusive(buf, minTime) ==
  LET old == {i \in 1..Len(buf) : \A h \in 1..i : buf[h].time <= minTime}
  IN SubSeq(buf, Cardinality(old) + 1, Len(buf))

\* while (buf.length && buf[0].time < minTime) buf.shift()
EvictByAge(buf, minTime) ==
  LET old == {i \in 1..Len(buf) : \A h \in 1..i : buf[h].time < minTime}
  IN SubSeq(buf, Cardinality(old) + 1, Len(buf))

\* mutant: off by one in the count bound
EvictByCount_OffByOne(buf) ==
  IF Len(buf) >= MAX_FRAGMENTS THEN SubSeq(buf, Len(buf) - MAX_FRAGMENTS + 2, Len(buf))
  ELSE buf

\* while (buf.length > MAX_FRAGMENTS) buf.shift()
EvictByCount(buf) ==
  IF Len(buf) > MAX_FRAGMENTS THEN SubSeq(buf, Len(buf) - MAX_FRAGMENTS + 1, Len(buf))
  ELSE buf

\* handleAtom(atom, timestamp): the buffer after the insertion
handleAtom(buf, atom, timestamp) ==
  EvictByCount(EvictByAge(Append(buf, [type |-> atom, time |-> timestamp]),
                          timestamp - prebufferDuration))

\* one turn of the reader loop of the output server: handleAtom, then emit('atom')
ReadAtom ==
  /\ spawned > 0
  /\ Len(arrived) < MaxAtoms
  /\ LET atom == AtomType(Len(arrived) + 1)
     IN /\ prebufferFmp4' = handleAtom(prebufferFmp4, atom, now)
        /\ arrived' = Append(arrived, [type |-> atom, time |-> now])
        /\ consumers' = [c \in 1..Len(consumers) |->
             IF consumers[c].pc = "connected"
             THEN [consumers[c] EXCEPT
                     !.live = Append(@, [type |-> atom, time |-> now]),
                     !.late = IF consumers[c].timedOut
                              THEN Append(@, [type |-> atom, time |-> now]) ELSE @]
             ELSE consumers[c]]
  /\ UNCHANGED <<nameVars, fragVars, recVars, streamVars, snapVars, motionVars, now, prebufferDuration, prebufferSession, spawned, startCalls>>

\* getVideo(requestedPrebuffer): a server waiting for its one consumer
getVideo ==
  \E requestedPrebuffer \in RequestedPrebuffers :
    /\ Len(consumers) < MaxConsumers
    /\ consumers' = Append(consumers,
         [pc |-> "listening", requested |-> requestedPrebuffer,
          connectedAt |-> 0, inserted |-> 0, seen |-> <<>>, history |-> <<>>,
          live |-> <<>>, openedAt |-> now, timedOut |-> FALSE, late |-> <<>>])
    /\ UNCHANGED <<nameVars, fragVars, recVars, streamVars, snapVars, motionVars, now, prebufferDuration, prebufferFmp4, prebufferSession,
                   spawned, startCalls, arrived>>

\* mutant: a fragment on the edge of the window is left out
History_Exclusive(buf, connectNow, requestedPrebuffer) ==
  SelectSeq(buf, LAMBDA fragment : fragment.time > connectNow - requestedPrebuffer)

\* the fragments the connection callback writes as history
History(buf, connectNow, requestedPrebuffer) ==
  SelectSeq(buf, LAMBDA fragment : fragment.time >= connectNow - requestedPrebuffer)

\* the connection callback of getVideo's server: write the history, subscribe to 'atom'
ConsumerConnect ==
  \E c \in 1..Len(consumers) :
    /\ consumers[c].pc = "listening"
    /\ consumers' = [consumers EXCEPT ![c] =
         [@ EXCEPT !.pc = "connected", !.connectedAt = now, !.seen = prebufferFmp4,
                   !.inserted = Len(arrived),
                   !.history = History(prebufferFmp4, now, consumers[c].requested)]]
    /\ UNCHANGED <<nameVars, fragVars, recVars, streamVars, snapVars, motionVars, now, prebufferDuration, prebufferFmp4, prebufferSession,
                   spawned, startCalls, arrived>>

\* socket 'end' / 'close' / 'error': cleanup removes the 'atom' listener
ConsumerDisconnect ==
  \E c \in 1..Len(consumers) :
    /\ consumers[c].pc = "connected"
    /\ consumers' = [consumers EXCEPT ![c].pc = "closed"]
    /\ UNCHANGED <<nameVars, fragVars, recVars, streamVars, snapVars, motionVars, now, prebufferDuration, prebufferFmp4, prebufferSession,
                   spawned, startCalls, arrived>>

\* setTimeout(() => server.close(), 30000)
safetyTimeoutMs == 30000

\* the instants, in ms, of a replay stream that outlives its safety timeout
ReplayInstants == {0, 1000, 30000, 31000}

\* the safety timer of getVideo fires: server.close() stops the server from accepting
\* a connection; a socket it has accepted stays open
SafetyTimeout ==
  \E c \in 1..Len(consumers) :
    /\ ~consumers[c].timedOut
    /\ now >= consumers[c].openedAt + safetyTimeoutMs
    /\ consumers' = [consumers EXCEPT ![c] =
         [@ EXCEPT !.timedOut = TRUE,
                   !.pc = IF @ = "listening" THEN "unserved" ELSE @]]
    /\ UNCHANGED <<nameVars, fragVars, recVars, streamVars, snapVars, motionVars, now, prebufferDuration, prebufferFmp4, prebufferSession,
                   spawned, startCalls, arrived>>

(***************************************************************************)
(* RecordingDelegate.consumeFragments: assembling the packets of a stream  *)
(***************************************************************************)
\* most atoms the repackaging subprocess delivers to one stream
MaxBoxes == 6

AtomTypes == {"ftyp", "moov", "moof", "mdat"}

\* let moof = null; let pending = []
FragmentsIdle ==
  /\ fragIn = <<>>
  /\ fragMoof = 0
  /\ fragPending = <<>>
  /\ fragPackets = <<>>
  /\ parseStream = <<>>
  /\ parseCut = 0
  /\ parsePos = 0
  /\ parseYield = <<>>
  /\ parseEnd = "idle"
  /\ byteBoxes = <<>>
  /\ bytePushed = 0
  /\ byteEnded = FALSE
  /\ byteRead = 0
  /\ byteHeader = <<>>
  /\ byteAtoms = <<>>
  /\ bytePc = "idle"
  /\ listenCalls = <<>>

\* one turn of the for-await loop of consumeFragments on an atom of the given type
consumeFragments(type) ==
  LET atom == Len(fragIn) + 1
      pending == Append(fragPending, atom)
  IN /\ fragIn' = Append(fragIn, type)
     /\ IF type = "moov"
        THEN /\ fragPackets' = Append(fragPackets, pending)
             /\ fragPending' = <<>>
             /\ fragMoof' = fragMoof
        ELSE IF type = "moof"
        THEN /\ fragMoof' = atom
             /\ fragPending' = pending
             /\ fragPackets' = fragPackets
        ELSE IF type = "mdat" /\ fragMoof # 0
        THEN /\ fragPackets' = Append(fragPackets, <<fragMoof, atom>>)
             /\ fragMoof' = 0
             /\ fragPending' = pending
        ELSE /\ fragPending' = pending
             /\ UNCHANGED <<fragMoof, fragPackets>>

ConsumeAtom ==
  \E type \in AtomTypes :
    /\ Len(fragIn) < MaxBoxes
    /\ consumeFragments(type)
    /\ UNCHANGED <<parseVars, byteVars, listenCalls>>
    /\ UNCHANGED <<nameVars, now, preVars, recVars, streamVars, snapVars, motionVars>>

(***************************************************************************)
(* readLength and parseFragmentedMP4 on a readable that ends               *)
(***************************************************************************)
\* most boxes in the stream a writer meant to send
MaxStreamBoxes == 2
\* payload lengths of the boxes, in bytes
PayloadLengths == {0, 4}
\* readLength(readable, 8): the box header
HeaderLength == 8
\* header.readInt32BE(0) needs 4 bytes
SizeFieldLength == 4

BoxStreams == UNION { [1..n -> PayloadLengths] : n \in 0..MaxStreamBoxes }

RECURSIVE StreamLength(_)
StreamLength(boxes) ==
  IF boxes = <<>> THEN 0
  ELSE HeaderLength + boxes[Len(boxes)] + StreamLength(SubSeq(boxes, 1, Len(boxes) - 1))

Min(a, b) == IF a < b THEN a ELSE b

\* a readable is handed to parseFragmentedMP4: it will deliver the first parseCut bytes
\* of the stream and then end
OpenReadable ==
  \E boxes \in BoxStreams :
    \E cut \in 0..StreamLength(boxes) :
      /\ parseEnd = "idle"
      /\ parseStream' = boxes
      /\ parseCut' = cut
      /\ parseEnd' = "reading"
      /\ UNCHANGED <<parsePos, parseYield>>
      /\ UNCHANGED <<fragIn, fragMoof, fragPending, fragPackets, byteVars, listenCalls>>
      /\ UNCHANGED <<nameVars, now, preVars, recVars, streamVars, snapVars, motionVars>>

\* readLength(readable, length) once the readable has ended with left bytes unread:
\* the number of bytes it resolves with, or -1 where it rejects.  No length gives an
\* empty buffer; readable.read(length) gives length bytes, or at the end of the stream
\* all that is left; with nothing left the 'end' listener rejects
Rejects == -1
readLength(left, length) ==
  IF length = 0 THEN 0
  ELSE IF left = 0 THEN Rejects
  ELSE Min(length, left)

\* whether the read that rejects settles at all.  A read that returned fewer bytes
\* than asked for has drained the ended readable, and 'end' is then emitted on its
\* own; the listener of the next read is attached before or after that, by timing,
\* and after it the promise stays pending
Settles(afterShortRead) == IF afterShortRead THEN BOOLEAN ELSE {TRUE}

\* one turn of the while loop of parseFragmentedMP4
ParseNext ==
  LET left == parseCut - parsePos
      header == readLength(left, HeaderLength)
      \* header.readInt32BE(0) - 8 of the box being read
      length == parseStream[Len(parseYield) + 1]
      data == readLength(left - header, length)
      last == parseYield[Len(parseYield)]
      lastShort == /\ parseYield # <<>>
                   /\ last.header + last.data < HeaderLength + last.length
  IN /\ parseEnd = "reading"
     /\ IF header = Rejects
        THEN \* catch (err) { break; }
             /\ \E settles \in Settles(lastShort) :
                  parseEnd' = IF settles THEN "return" ELSE "pending"
             /\ UNCHANGED <<parsePos, parseYield>>
        ELSE IF header < SizeFieldLength
        THEN \* readInt32BE on a buffer of fewer than 4 bytes
             /\ parseEnd' = "throw"
             /\ UNCHANGED <<parsePos, parseYield>>
        ELSE IF data = Rejects
        THEN \* the rejection of the data read, outside the try
             /\ \E settles \in Settles(header < HeaderLength) :
                  parseEnd' = IF settles THEN "throw" ELSE "pending"
             /\ UNCHANGED <<parsePos, parseYield>>
        ELSE /\ parseYield' = Append(parseYield,
                                     [header |-> header, data |-> data, length |-> length])
             /\ parsePos' = parsePos + header + data
             /\ UNCHANGED parseEnd
     /\ UNCHANGED <<parseStream, parseCut>>
     /\ UNCHANGED <<fragIn, fragMoof, fragPending, fragPackets, byteVars, listenCalls>>
     /\ UNCHANGED <<nameVars, now, preVars, recVars, streamVars, snapVars, motionVars>>

(***************************************************************************)
(* readLength and parseFragmentedMP4 on the bytes of well-formed boxes     *)
(***************************************************************************)
\* most boxes in a well-formed stream
MaxByteBoxes == 2
\* most payload bytes of a box
MaxPayload == 2
\* the payload of n bytes: 255, 254, ..., each byte different from its neighbours
Payload(n) == [i \in 1..n |-> 256 - i]
\* the type tags of the boxes, as character codes: "moof" and "mdat"
BoxTypes == { <<109, 111, 111, 102>>, <<109, 100, 97, 116>> }
\* chunk sizes in which the bytes reach the readable
ChunkSizes == {3, 8}

\* Buffer.writeInt32BE of a length that fits one byte
writeInt32BE(n) == <<0, 0, 0, n>>

\* a well-formed box: 4-byte big-endian length including the header, 4-byte type tag,
\* length - 8 bytes of payload
WellFormedBoxes ==
  { writeInt32BE(HeaderLength + Len(payload)) \o type \o payload :
      type \in BoxTypes,
      payload \in { Payload(n) : n \in 0..MaxPayload } }

WellFormedStreams == UNION { [1..n -> WellFormedBoxes] : n \in 0..MaxByteBoxes }

RECURSIVE Flatten(_)
Flatten(seqs) == IF seqs = <<>> THEN <<>> ELSE Head(seqs) \o Flatten(Tail(seqs))

\* the same four bytes read with the least significant byte first
readInt32BE_LittleEndian(buffer) ==
  buffer[4] * 65536 * 256 + buffer[3] * 65536 + buffer[2] * 256 + buffer[1]

\* Buffer.readInt32BE(0): the first four bytes as a signed 32-bit big-endian number
readInt32BE(buffer) ==
  ((IF buffer[1] >= 128 THEN buffer[1] - 256 ELSE buffer[1]) * 65536 * 256)
    + buffer[2] * 65536 + buffer[3] * 256 + buffer[4]

\* Buffer.toString(): a byte below 128 is its character, any other byte decodes to
\* the replacement character
ReplacementCharacter == 65533
toString(buffer) ==
  [i \in DOMAIN buffer |-> IF buffer[i] < 128 THEN buffer[i] ELSE ReplacementCharacter]

\* parseFragmentedMP4(readable) is called on a readable that will carry the boxes
OpenByteReadable ==
  /\ bytePc = "idle"
  /\ \E boxes \in WellFormedStreams : byteBoxes' = boxes
  /\ bytePc' = "header"
  /\ UNCHANGED <<bytePushed, byteEnded, byteRead, byteHeader, byteAtoms>>
  /\ UNCHANGED <<fragIn, fragMoof, fragPending, fragPackets, parseVars, listenCalls>>
  /\ UNCHANGED <<nameVars, now, preVars, recVars, streamVars, snapVars, motionVars>>

\* the writer's next chunk reaches the readable
PushChunk ==
  \E size \in ChunkSizes :
    /\ bytePc # "idle"
    /\ bytePushed < Len(Flatten(byteBoxes))
    /\ bytePushed' = Min(bytePushed + size, Len(Flatten(byteBoxes)))
    /\ UNCHANGED <<byteBoxes, byteEnded, byteRead, byteHeader, byteAtoms, bytePc>>
    /\ UNCHANGED <<fragIn, fragMoof, fragPending, fragPackets, parseVars, listenCalls>>
    /\ UNCHANGED <<nameVars, now, preVars, recVars, streamVars, snapVars, motionVars>>

\* the writer closes its end after the last byte
EndReadable ==
  /\ bytePc # "idle"
  /\ bytePushed = Len(Flatten(byteBoxes))
  /\ ~byteEnded
  /\ byteEnded' = TRUE
  /\ UNCHANGED <<byteBoxes, bytePushed, byteRead, byteHeader, byteAtoms, bytePc>>
  /\ UNCHANGED <<fragIn, fragMoof, fragPending, fragPackets, parseVars, listenCalls>>
  /\ UNCHANGED <<nameVars, now, preVars, recVars, streamVars, snapVars, motionVars>>

\* the bytes in the readable's buffer
Buffered == SubSeq(Flatten(byteBoxes), byteRead + 1, bytePushed)

\* whether readLength(readable, length) has settled: at once for no length, when
\* length bytes are buffered, or when the readable has ended
readLengthSettled(length) ==
  length = 0 \/ Len(Buffered) >= length \/ byteEnded

\* whether it settled by rejecting: the readable ended with nothing left
readLengthRejects(length) ==
  length # 0 /\ Len(Buffered) = 0 /\ byteEnded

\* the buffer it resolves with: readable.read(length) gives length bytes, or at the
\* end of the stream all that is left
readLengthBytes(length) ==
  IF length <= 0 THEN <<>> ELSE SubSeq(Buffered, 1, Min(length, Len(Buffered)))

\* header = await readLength(readable, 8), and the decoding of the length
ReadHeader ==
  /\ bytePc = "header"
  /\ readLengthSettled(HeaderLength)
  /\ IF readLengthRejects(HeaderLength)
     THEN \* catch (err) { break; }
          /\ bytePc' = "return"
          /\ UNCHANGED <<byteHeader, byteRead>>
     ELSE /\ byteHeader' = readLengthBytes(HeaderLength)
          /\ byteRead' = byteRead + Len(byteHeader')
          /\ bytePc' = IF Len(byteHeader') < SizeFieldLength THEN "throw" ELSE "data"
  /\ UNCHANGED <<byteBoxes, bytePushed, byteEnded, byteAtoms>>
  /\ UNCHANGED <<fragIn, fragMoof, fragPending, fragPackets, parseVars, listenCalls>>
  /\ UNCHANGED <<nameVars, now, preVars, recVars, streamVars, snapVars, motionVars>>

\* data = await readLength(readable, length), and the yield
ReadData ==
  LET length == readInt32BE(byteHeader) - HeaderLength
      type == toString(SubSeq(byteHeader, SizeFieldLength + 1, Len(byteHeader)))
      data == readLengthBytes(length)
  IN /\ bytePc = "data"
     /\ readLengthSettled(length)
     /\ IF readLengthRejects(length)
        THEN /\ bytePc' = "throw"
             /\ UNCHANGED <<byteRead, byteAtoms>>
        ELSE /\ byteAtoms' = Append(byteAtoms,
                [header |-> byteHeader, length |-> length, type |-> type, data |-> data])
             /\ byteRead' = byteRead + Len(data)
             /\ bytePc' = "header"
     /\ UNCHANGED <<byteBoxes, bytePushed, byteEnded, byteHeader>>
     /\ UNCHANGED <<fragIn, fragMoof, fragPending, fragPackets, parseVars, listenCalls>>
     /\ UNCHANGED <<nameVars, now, preVars, recVars, streamVars, snapVars, motionVars>>

(***************************************************************************)
(* listenServer                                                            *)
(***************************************************************************)
\* most calls of listenServer, each with a server of its own
MaxListenCalls == 2
\* the count of failed attempts is kept up to this number
MaxAttemptsCounted == 2
\* values of 10000 + Math.floor(Math.random() * 30000)
ListenPorts == {10000, 39999}

\* the ports held by the servers of the calls that returned
PortsHeld == { listenCalls[c].port : c \in { d \in DOMAIN listenCalls : listenCalls[d].pc = "returned" } }

\* listenServer(server, log) is called: let listening = false
listenServer ==
  /\ Len(listenCalls) < MaxListenCalls
  /\ listenCalls' = Append(listenCalls, [pc |-> "while", port |-> 0, failed |-> 0])
  /\ UNCHANGED <<fragIn, fragMoof, fragPending, fragPackets, parseVars, byteVars>>
  /\ UNCHANGED <<nameVars, now, preVars, recVars, streamVars, snapVars, motionVars>>

\* while (!listening): a port is drawn and server.listen(port) is called
ServerListen ==
  \E c \in DOMAIN listenCalls :
    \E port \in ListenPorts :
      /\ listenCalls[c].pc = "while"
      /\ listenCalls' = [listenCalls EXCEPT ![c].pc = "once", ![c].port = port]
      /\ UNCHANGED <<fragIn, fragMoof, fragPending, fragPackets, parseVars, byteVars>>
      /\ UNCHANGED <<nameVars, now, preVars, recVars, streamVars, snapVars, motionVars>>

\* the server emits 'listening': the port is returned
ServerListening ==
  \E c \in DOMAIN listenCalls :
    /\ listenCalls[c].pc = "once"
    /\ listenCalls[c].port \notin PortsHeld
    /\ listenCalls' = [listenCalls EXCEPT ![c].pc = "returned"]
    /\ UNCHANGED <<fragIn, fragMoof, fragPending, fragPackets, parseVars, byteVars>>
    /\ UNCHANGED <<nameVars, now, preVars, recVars, streamVars, snapVars, motionVars>>

\* the server emits 'error' (the port is in use, or the bind fails otherwise): once
\* rejects, the catch logs, and the loop goes round with listening still false
ServerError ==
  \E c \in DOMAIN listenCalls :
    /\ listenCalls[c].pc = "once"
    /\ listenCalls' = [listenCalls EXCEPT ![c].pc = "while", ![c].port = 0,
                          ![c].failed = Min(@ + 1, MaxAttemptsCounted)]
    /\ UNCHANGED <<fragIn, fragMoof, fragPending, fragPackets, parseVars, byteVars>>
    /\ UNCHANGED <<nameVars, now, preVars, recVars, streamVars, snapVars, motionVars>>

(***************************************************************************)
(* RecordingDelegate: handleRecordingStreamRequest, closeRecordingStream   *)
(***************************************************************************)
\* most recording requests in one run
MaxRequests == 2
\* most fragments one repackaging subprocess delivers
MaxFragments == 2

StreamIds == {1}

\* a subprocess handle: killed is ChildProcess.killed (a signal was sent with success),
\* eof says the child has terminated and closed its output, exited that the 'exit'
\* event has been emitted, left is the number of fragments still to be read
NoProcess == [spawned |-> FALSE, killed |-> FALSE, eof |-> FALSE, exited |-> FALSE, left |-> 0]

RecordingIdle ==
  /\ currentRecordingConfiguration = FALSE
  /\ delegatePreBuffer = FALSE
  /\ delegatePreBufferSession = FALSE
  /\ streamAbortControllers = [s \in StreamIds |-> 0]
  /\ activeFFmpegProcesses = [s \in StreamIds |-> 0]
  /\ streams = <<>>

updateRecordingConfiguration ==
  \E config \in BOOLEAN :
    /\ config # currentRecordingConfiguration
    /\ currentRecordingConfiguration' = config
    /\ UNCHANGED <<delegatePreBuffer, delegatePreBufferSession, streamAbortControllers,
                   activeFFmpegProcesses, streams>>
    /\ UNCHANGED <<nameVars, now, preVars, fragVars, streamVars, snapVars, motionVars>>

\* the call itself: an async generator runs nothing until its first next()
handleRecordingStreamRequest ==
  \E streamId \in StreamIds :
    /\ Len(streams) < MaxRequests
    /\ streams' = Append(streams, [streamId |-> streamId, pc |-> "new", config |-> "unread",
                                   aborted |-> FALSE, cp |-> NoProcess, how |-> "",
                                   packets |-> <<>>])
    /\ UNCHANGED <<currentRecordingConfiguration, delegatePreBuffer, delegatePreBufferSession,
                   streamAbortControllers, activeFFmpegProcesses>>
    /\ UNCHANGED <<nameVars, now, preVars, fragVars, streamVars, snapVars, motionVars>>

\* handleRecordingStreamRequest from its first line to the first await that suspends:
\* the configuration test, the abort controller, startPreBuffer up to its await
GeneratorStart ==
  \E g \in DOMAIN streams :
    /\ streams[g].pc = "new"
    /\ IF ~currentRecordingConfiguration
       THEN /\ streams' = [streams EXCEPT ![g].pc = "done", ![g].config = "missing"]
            /\ UNCHANGED <<streamAbortControllers, delegatePreBuffer>>
       ELSE /\ streamAbortControllers' =
                 [streamAbortControllers EXCEPT ![streams[g].streamId] = g]
            /\ IF ~delegatePreBuffer
               THEN /\ delegatePreBuffer' = TRUE
                    /\ streams' = [streams EXCEPT ![g].pc = "startPreBuffer",
                                                  ![g].config = "set"]
               ELSE /\ UNCHANGED delegatePreBuffer
                    /\ streams' = [streams EXCEPT ![g].pc = "getVideo",
                                                  ![g].config = "set"]
    /\ UNCHANGED <<currentRecordingConfiguration, delegatePreBufferSession,
                   activeFFmpegProcesses>>
    /\ UNCHANGED <<nameVars, now, preVars, fragVars, streamVars, snapVars, motionVars>>

\* RecordingDelegate.startPreBuffer resumes: preBuffer.startPreBuffer() has returned
startPreBuffer ==
  \E g \in DOMAIN streams :
    /\ streams[g].pc = "startPreBuffer"
    /\ delegatePreBufferSession' = TRUE
    /\ streams' = [streams EXCEPT ![g].pc = "getVideo"]
    /\ UNCHANGED <<currentRecordingConfiguration, delegatePreBuffer, streamAbortControllers,
                   activeFFmpegProcesses>>
    /\ UNCHANGED <<nameVars, now, preVars, fragVars, streamVars, snapVars, motionVars>>

\* launchFragmentSession resumes after getVideo: spawn, register, hand out the parser
launchFragmentSession ==
  \E g \in DOMAIN streams :
    /\ streams[g].pc = "getVideo"
    /\ streams' = [streams EXCEPT ![g].pc = "read",
                                  ![g].cp = [NoProcess EXCEPT !.spawned = TRUE,
                                                              !.left = MaxFragments]]
    /\ activeFFmpegProcesses' = [activeFFmpegProcesses EXCEPT ![streams[g].streamId] = g]
    /\ UNCHANGED <<currentRecordingConfiguration, delegatePreBuffer, delegatePreBufferSession,
                   streamAbortControllers>>
    /\ UNCHANGED <<nameVars, now, preVars, fragVars, streamVars, snapVars, motionVars>>

\* the end of handleRecordingStreamRequest once consumeFragments is over: the catch
\* clause yields the final packet when consumeFragments threw, otherwise the finally
\* clause deletes the controller entry of the stream id
RequestEnd(g, s, how) ==
  IF how = "throw"
  THEN /\ streams' = [streams EXCEPT ![g] =
                        [s EXCEPT !.pc = "yieldedLast",
                                  !.packets = Append(@, [isLast |-> TRUE, empty |-> TRUE,
                                                         aborted |-> s.aborted])]]
       /\ UNCHANGED streamAbortControllers
  ELSE /\ streams' = [streams EXCEPT ![g] = [s EXCEPT !.pc = "done"]]
       /\ streamAbortControllers' = [streamAbortControllers EXCEPT ![s.streamId] = 0]

\* the finally clause of consumeFragments: a subprocess not marked killed is sent
\* SIGTERM (which marks it unless it has exited) and its 'exit' event is awaited
ConsumeFragmentsFinally(g, s, how) ==
  IF ~s.cp.killed
  THEN /\ streams' = [streams EXCEPT ![g] =
                        [s EXCEPT !.cp.killed = ~s.cp.exited, !.pc = "awaitExit",
                                  !.how = how]]
       /\ UNCHANGED <<streamAbortControllers, activeFFmpegProcesses>>
  ELSE /\ activeFFmpegProcesses' = [activeFFmpegProcesses EXCEPT ![s.streamId] = 0]
       /\ RequestEnd(g, s, how)

\* consumeFragments hands a fragment to the loop of handleRecordingStreamRequest, which
\* tests the abort signal and then yields the packet
Fragment ==
  \E g \in DOMAIN streams :
    LET s == [streams[g] EXCEPT !.cp.left = @ - 1] IN
    /\ streams[g].pc = "read"
    /\ streams[g].cp.left > 0
    /\ IF s.aborted
       THEN ConsumeFragmentsFinally(g, s, "break")
       ELSE /\ streams' = [streams EXCEPT ![g] =
                             [s EXCEPT !.pc = "yielded",
                                       !.packets = Append(@, [isLast |-> FALSE,
                                                              empty |-> FALSE,
                                                              aborted |-> s.aborted])]]
            /\ UNCHANGED <<streamAbortControllers, activeFFmpegProcesses>>
    /\ UNCHANGED <<currentRecordingConfiguration, delegatePreBuffer, delegatePreBufferSession>>
    /\ UNCHANGED <<nameVars, now, preVars, fragVars, streamVars, snapVars, motionVars>>

\* the output of the subprocess ends: on a box boundary parseFragmentedMP4 breaks and
\* consumeFragments ends; inside a box readLength rejects and the error propagates
EndOfOutput ==
  \E g \in DOMAIN streams, insideBox \in BOOLEAN :
    /\ streams[g].pc = "read"
    /\ streams[g].cp.eof
    /\ ConsumeFragmentsFinally(g, [streams[g] EXCEPT !.cp.left = 0],
                               IF insideBox THEN "throw" ELSE "end")
    /\ UNCHANGED <<currentRecordingConfiguration, delegatePreBuffer, delegatePreBufferSession>>
    /\ UNCHANGED <<nameVars, now, preVars, fragVars, streamVars, snapVars, motionVars>>

\* the caller iterating the generator asks for the next packet
ConsumerNext ==
  \E g \in DOMAIN streams :
    /\ \/ /\ streams[g].pc = "yielded"
          /\ streams' = [streams EXCEPT ![g].pc = "read"]
          /\ UNCHANGED streamAbortControllers
       \/ /\ streams[g].pc = "yieldedLast"
          /\ RequestEnd(g, streams[g], "end")
    /\ UNCHANGED <<currentRecordingConfiguration, delegatePreBuffer, delegatePreBufferSession,
                   activeFFmpegProcesses>>
    /\ UNCHANGED <<nameVars, now, preVars, fragVars, streamVars, snapVars, motionVars>>

\* the subprocess terminates, of itself or on a signal, and closes its output
ProcessDies ==
  \E g \in DOMAIN streams :
    /\ streams[g].cp.spawned
    /\ ~streams[g].cp.eof
    /\ streams' = [streams EXCEPT ![g].cp.eof = TRUE]
    /\ UNCHANGED <<currentRecordingConfiguration, delegatePreBuffer, delegatePreBufferSession,
                   streamAbortControllers, activeFFmpegProcesses>>
    /\ UNCHANGED <<nameVars, now, preVars, fragVars, streamVars, snapVars, motionVars>>

\* the 'exit' event of a terminated subprocess; it resumes a consumeFragments that awaits it
ExitEvent ==
  \E g \in DOMAIN streams :
    LET s == [streams[g] EXCEPT !.cp.exited = TRUE] IN
    /\ streams[g].cp.eof
    /\ ~streams[g].cp.exited
    /\ IF s.pc = "awaitExit"
       THEN /\ activeFFmpegProcesses' = [activeFFmpegProcesses EXCEPT ![s.streamId] = 0]
            /\ RequestEnd(g, s, s.how)
       ELSE /\ streams' = [streams EXCEPT ![g] = s]
            /\ UNCHANGED <<streamAbortControllers, activeFFmpegProcesses>>
    /\ UNCHANGED <<currentRecordingConfiguration, delegatePreBuffer, delegatePreBufferSession>>
    /\ UNCHANGED <<nameVars, now, preVars, fragVars, streamVars, snapVars, motionVars>>

isActive == \E s \in StreamIds : streamAbortControllers[s] # 0

closeRecordingStream ==
  \E streamId \in StreamIds :
    LET c == streamAbortControllers[streamId]
        p == activeFFmpegProcesses[streamId]
    IN /\ c # 0
       /\ streams' = [g \in DOMAIN streams |->
                        [streams[g] EXCEPT
                           !.aborted = @ \/ g = c,
                           !.cp.killed = @ \/ (g = p /\ ~streams[g].cp.exited)]]
       /\ streamAbortControllers' = [streamAbortControllers EXCEPT ![streamId] = 0]
       /\ activeFFmpegProcesses' = [activeFFmpegProcesses EXCEPT ![streamId] = 0]
       /\ UNCHANGED <<currentRecordingConfiguration, delegatePreBuffer,
                      delegatePreBufferSession>>
       /\ UNCHANGED <<nameVars, now, preVars, fragVars, streamVars, snapVars, motionVars>>

(***************************************************************************)
(* streamingDelegate: prepareStream, startStream, stopStream               *)
(***************************************************************************)
\* most ActiveSession objects created in one run
MaxSessions == 2
\* most stopStream invocations in one run
MaxStops == 3
\* most errors startStream reports in one run
MaxStartErrors == 1

SessionIds == {"s1", "s2"}

StreamingIdle ==
  /\ pendingSessions = {}
  /\ ongoingSessions = [id \in SessionIds |-> 0]
  /\ sessionObjects = <<>>
  /\ startReplies = [id \in SessionIds |-> 0]
  /\ startRequests = [id \in SessionIds |-> 0]
  /\ live = [id \in SessionIds |-> FALSE]
  /\ stopCalls = [n |-> 0, sessionId |-> "", wasLive |-> FALSE]
  /\ streamError = FALSE

prepareStream ==
  \E sessionID \in SessionIds :
    /\ sessionID \notin pendingSessions
    /\ pendingSessions' = pendingSessions \cup {sessionID}
    /\ UNCHANGED <<ongoingSessions, sessionObjects, startReplies, startRequests, live,
                   stopCalls, streamError>>
    /\ UNCHANGED <<nameVars, now, preVars, fragVars, recVars, snapVars, motionVars>>

\* a variant of HasSessionInfo that finds an entry for every session id
HasSessionInfo_Always(sessionID) ==
  TRUE

\* const sessionInfo = this.pendingSessions[request.sessionID]; if (!sessionInfo) ..
HasSessionInfo(sessionID) ==
  sessionID \in pendingSessions

startStream ==
  \E sessionID \in SessionIds :
    /\ startRequests' = [startRequests EXCEPT ![sessionID] = @ + 1]
    /\ IF ~HasSessionInfo(sessionID)
       THEN /\ startReplies[sessionID] < MaxStartErrors
            /\ startReplies' = [startReplies EXCEPT ![sessionID] = @ + 1]
            /\ UNCHANGED <<pendingSessions, ongoingSessions, sessionObjects, live>>
       ELSE /\ Len(sessionObjects) < MaxSessions
            /\ sessionObjects' = Append(sessionObjects,
                                        [sessionId |-> sessionID, timeout |-> "unset",
                                         socket |-> "open", mainProcess |-> "running",
                                         forced |-> FALSE, releases |-> 0])
            /\ ongoingSessions' =
                 [ongoingSessions EXCEPT ![sessionID] = Len(sessionObjects) + 1]
            /\ pendingSessions' = pendingSessions \ {sessionID}
            /\ live' = [live EXCEPT ![sessionID] = TRUE]
            /\ UNCHANGED startReplies
    /\ UNCHANGED <<stopCalls, streamError>>
    /\ UNCHANGED <<nameVars, now, preVars, fragVars, recVars, snapVars, motionVars>>

\* a variant of Release that leaves the inactivity timer armed
Release_KeepTimer(session) ==
  [session EXCEPT !.socket = "closed",
                  !.mainProcess = "stopped",
                  !.releases = @ + 1]

\* session.timeout && clearTimeout(..); socket?.close(); mainProcess?.stop()
Release(session) ==
  [session EXCEPT !.timeout = IF @ = "armed" THEN "cleared" ELSE @,
                  !.socket = "closed",
                  !.mainProcess = "stopped",
                  !.releases = @ + 1]

\* a variant of Forget that keeps the entry
Forget_Keep(sessionId) ==
  ongoingSessions

\* delete this.ongoingSessions[sessionId]
Forget(sessionId) ==
  [ongoingSessions EXCEPT ![sessionId] = 0]

\* stopStream on the session objects as its caller left them; closing a socket that
\* is closed already raises an error
stopStream(objects, sessionId) ==
  LET session == ongoingSessions[sessionId] IN
  /\ IF session # 0
     THEN /\ sessionObjects' = [objects EXCEPT ![session] = Release(@)]
          /\ ongoingSessions' = Forget(sessionId)
          /\ streamError' = (streamError \/ objects[session].socket = "closed")
     ELSE /\ sessionObjects' = objects
          /\ UNCHANGED <<ongoingSessions, streamError>>
  /\ stopCalls' = [n |-> stopCalls.n + 1, sessionId |-> sessionId,
                   wasLive |-> live[sessionId]]
  /\ live' = [live EXCEPT ![sessionId] = FALSE]

\* handleStreamRequest with a STOP request
StopRequest ==
  \E sessionID \in SessionIds :
    /\ stopCalls.n < MaxStops
    /\ stopStream(sessionObjects, sessionID)
    /\ UNCHANGED <<pendingSessions, startReplies, startRequests>>
    /\ UNCHANGED <<nameVars, now, preVars, fragVars, recVars, snapVars, motionVars>>

\* the socket's 'message' handler: the inactivity timer is cleared and armed again
SocketMessage ==
  \E o \in DOMAIN sessionObjects :
    /\ sessionObjects[o].socket = "open"
    /\ sessionObjects[o].timeout # "armed"
    /\ sessionObjects' = [sessionObjects EXCEPT ![o].timeout = "armed"]
    /\ UNCHANGED <<pendingSessions, ongoingSessions, startReplies, startRequests, live,
                   stopCalls, streamError>>
    /\ UNCHANGED <<nameVars, now, preVars, fragVars, recVars, snapVars, motionVars>>

\* the inactivity timer fires: forceStopStreamingSession, then stopStream
InactivityTimeout ==
  \E o \in DOMAIN sessionObjects :
    /\ sessionObjects[o].timeout = "armed"
    /\ stopCalls.n < MaxStops
    /\ stopStream([sessionObjects EXCEPT ![o].timeout = "fired", ![o].forced = TRUE],
                  sessionObjects[o].sessionId)
    /\ UNCHANGED <<pendingSessions, startReplies, startRequests>>
    /\ UNCHANGED <<nameVars, now, preVars, fragVars, recVars, snapVars, motionVars>>

\* the socket's 'error' handler
SocketError ==
  \E o \in DOMAIN sessionObjects :
    /\ sessionObjects[o].socket = "open"
    /\ stopCalls.n < MaxStops
    /\ stopStream(sessionObjects, sessionObjects[o].sessionId)
    /\ UNCHANGED <<pendingSessions, startReplies, startRequests>>
    /\ UNCHANGED <<nameVars, now, preVars, fragVars, recVars, snapVars, motionVars>>

(***************************************************************************)
(* streamingDelegate: getSnapshot and its cache                            *)
(***************************************************************************)
cacheTtlMs == 5000

\* most getSnapshot calls in one run
MaxSnapshots == 3

SnapshotInstants == {0, 2500, 5000, 7500}

\* the result of a call that has not resolved yet
Pending == -1

SnapshotIdle ==
  /\ cachedSnapshot = 0
  /\ cachedAt = 0
  /\ snapshots = <<>>

\* a variant of CacheValid that still accepts an age equal to the TTL
CacheValid_Inclusive(t) ==
  cachedSnapshot # 0 /\ t - cachedAt <= cacheTtlMs

\* this.cachedSnapshot && now - this.cachedAt < this.cacheTtlMs
CacheValid(t) ==
  cachedSnapshot # 0 /\ t - cachedAt < cacheTtlMs

\* getSnapshot up to its return or to the spawn in handleSnapshotRequest; each call
\* records the cache it found
GetSnapshotCall ==
  /\ snapshots' = Append(snapshots,
                         [start |-> now, cachedSnapshot |-> cachedSnapshot,
                          cachedAt |-> cachedAt, spawned |-> ~CacheValid(now),
                          exit |-> FALSE, error |-> FALSE, callbacks |-> 0,
                          result |-> IF CacheValid(now) THEN cachedSnapshot ELSE Pending])
  /\ UNCHANGED <<cachedSnapshot, cachedAt>>

\* a getSnapshot call of the host (Camera.getSnapshot)
getSnapshot ==
  /\ Len(snapshots) < MaxSnapshots
  /\ GetSnapshotCall
  /\ UNCHANGED <<nameVars, now, preVars, fragVars, recVars, streamVars, motionVars>>

\* the callback getSnapshot hands to handleSnapshotRequest, for call k with updated
\* record call; only the first resolve of the promise counts
SnapshotCallback(k, call, err) ==
  IF err
  THEN /\ snapshots' = [snapshots EXCEPT ![k] =
                          [call EXCEPT !.result = IF @ = Pending THEN 0 ELSE @,
                                       !.callbacks = @ + 1]]
       /\ UNCHANGED <<cachedSnapshot, cachedAt>>
  ELSE /\ cachedSnapshot' = k
       /\ cachedAt' = call.start
       /\ snapshots' = [snapshots EXCEPT ![k] =
                          [call EXCEPT !.result = IF @ = Pending THEN k ELSE @,
                                       !.callbacks = @ + 1]]

\* the 'exit' event of the snapshot subprocess
SnapshotExit ==
  \E k \in DOMAIN snapshots, ok \in BOOLEAN :
    /\ snapshots[k].spawned
    /\ ~snapshots[k].exit
    /\ SnapshotCallback(k, [snapshots[k] EXCEPT !.exit = TRUE], ~ok)
    /\ UNCHANGED <<nameVars, now, preVars, fragVars, recVars, streamVars, motionVars>>

\* the 'error' event of the snapshot subprocess
SnapshotError ==
  \E k \in DOMAIN snapshots :
    /\ snapshots[k].spawned
    /\ ~snapshots[k].exit
    /\ ~snapshots[k].error
    /\ SnapshotCallback(k, [snapshots[k] EXCEPT !.error = TRUE], TRUE)
    /\ UNCHANGED <<nameVars, now, preVars, fragVars, recVars, streamVars, motionVars>>

(***************************************************************************)
(* CameraMotionSensor: the poll loop                                       *)
(***************************************************************************)
pollIntervalMs == 1000
failureBackoffMs == 5000
cooldownMs == 8000
resetDelayMs == 15000

\* most poll cycles in one run
MaxCycles == 3
\* most failed snapshots counted
MaxFailures == 2

MotionInstants == {0, 1000, 2000, 10000}

\* the sensor after its constructor: startPolling has scheduled the first cycle
MotionIdle ==
  /\ polling = TRUE
  /\ MotionDetected = FALSE
  /\ lastTriggerTime = 0
  /\ lastSnapshotBuffer = 0
  /\ lastSnapshotSize = 0
  /\ consecutiveFailures = 0
  /\ pollTimers = <<pollIntervalMs>>
  /\ pollCycles = <<>>
  /\ motionEvents = <<>>

RemoveAt(seq, i) == SubSeq(seq, 1, i - 1) \o SubSeq(seq, i + 1, Len(seq))

\* a variant of isHKSVActive that never reports a recording
isHKSVActive_Never ==
  FALSE

\* CameraService.isHKSVActive: the recording delegate's isActive()
isHKSVActive ==
  isActive

\* a variant of schedulePoll that arms no timer
schedulePoll_Dropped(timers, delay) ==
  timers

\* setTimeout(() => this.poll(), delay)
schedulePoll(timers, delay) == Append(timers, now + delay)

\* a poll timer fires: poll() up to its return or to its await of getSnapshot
PollTimer ==
  \E t \in DOMAIN pollTimers :
    LET rest == RemoveAt(pollTimers, t)
        cycle == [start |-> now, polling |-> polling, hksv |-> isActive, snapshot |-> 0,
                  compared |-> FALSE, scheduled |-> 0, pc |-> "done"]
    IN /\ pollTimers[t] <= now
       /\ Len(pollCycles) < MaxCycles
       /\ IF ~polling
          THEN /\ pollTimers' = rest
               /\ pollCycles' = Append(pollCycles, cycle)
               /\ UNCHANGED snapVars
          ELSE IF isHKSVActive
          THEN /\ pollTimers' = schedulePoll(rest, pollIntervalMs)
               /\ pollCycles' = Append(pollCycles, [cycle EXCEPT !.scheduled = 1])
               /\ UNCHANGED snapVars
          ELSE /\ Len(snapshots) < MaxSnapshots
               /\ GetSnapshotCall
               /\ pollTimers' = rest
               /\ pollCycles' = Append(pollCycles,
                                       [cycle EXCEPT !.snapshot = Len(snapshots) + 1,
                                                     !.pc = "getSnapshot"])
       /\ UNCHANGED <<polling, MotionDetected, lastTriggerTime, lastSnapshotBuffer,
                      lastSnapshotSize, consecutiveFailures, motionEvents>>
       /\ UNCHANGED <<nameVars, now, preVars, fragVars, recVars, streamVars>>

\* mutant: a change triggers at once, whatever the time since the last trigger
Judge_NoCooldown(signal) ==
  IF signal
  THEN /\ MotionDetected' = TRUE
       /\ lastTriggerTime' = now
       /\ motionEvents' = Append(motionEvents, [call |-> "triggerMotion", time |-> now])
  ELSE IF MotionDetected /\ now - lastTriggerTime > resetDelayMs
  THEN /\ MotionDetected' = FALSE
       /\ motionEvents' = Append(motionEvents, [call |-> "resetMotion", time |-> now])
       /\ UNCHANGED lastTriggerTime
  ELSE UNCHANGED <<MotionDetected, lastTriggerTime, motionEvents>>

\* the decision both comparison paths share: trigger after the cooldown, else reset
\* after the reset delay; signal says the comparison found a change
Judge(signal) ==
  IF signal /\ now - lastTriggerTime > cooldownMs
  THEN /\ MotionDetected' = TRUE
       /\ lastTriggerTime' = now
       /\ motionEvents' = Append(motionEvents, [call |-> "triggerMotion", time |-> now])
  ELSE IF MotionDetected /\ now - lastTriggerTime > resetDelayMs
  THEN /\ MotionDetected' = FALSE
       /\ motionEvents' = Append(motionEvents, [call |-> "resetMotion", time |-> now])
       /\ UNCHANGED lastTriggerTime
  ELSE UNCHANGED <<MotionDetected, lastTriggerTime, motionEvents>>

\* poll() resumes with the snapshot: failure backoff, or the pixel comparison (decodes)
\* or its size fallback, each finding a change or not (changed; a buffer does not
\* differ from itself), then the next cycle is scheduled
PollResume ==
  \E c \in DOMAIN pollCycles, decodes \in BOOLEAN, changed \in BOOLEAN :
    LET cycle == pollCycles[c]
        snapshot == snapshots[cycle.snapshot].result
    IN /\ cycle.pc = "getSnapshot"
       /\ snapshot # Pending
       /\ IF snapshot = 0
          THEN /\ consecutiveFailures < MaxFailures
               /\ consecutiveFailures' = consecutiveFailures + 1
               /\ pollTimers' = schedulePoll(pollTimers, failureBackoffMs)
               /\ pollCycles' = [pollCycles EXCEPT ![c].pc = "done", ![c].scheduled = 1]
               /\ UNCHANGED <<MotionDetected, lastTriggerTime, lastSnapshotBuffer,
                              lastSnapshotSize, motionEvents>>
          ELSE /\ IF lastSnapshotBuffer = 0
                  THEN /\ UNCHANGED <<MotionDetected, lastTriggerTime, lastSnapshotSize,
                                      motionEvents>>
                       /\ pollCycles' = [pollCycles EXCEPT ![c].pc = "done",
                                                           ![c].scheduled = 1]
                  ELSE IF decodes
                  THEN /\ Judge(changed /\ lastSnapshotBuffer # snapshot)
                       /\ UNCHANGED lastSnapshotSize
                       /\ pollCycles' = [pollCycles EXCEPT ![c].pc = "done",
                                                           ![c].scheduled = 1,
                                                           ![c].compared = TRUE]
                  ELSE /\ IF lastSnapshotSize # 0
                          THEN Judge(changed /\ lastSnapshotSize # snapshot)
                          ELSE UNCHANGED <<MotionDetected, lastTriggerTime, motionEvents>>
                       /\ lastSnapshotSize' = snapshot
                       /\ pollCycles' = [pollCycles EXCEPT ![c].pc = "done",
                                                           ![c].scheduled = 1,
                                                           ![c].compared =
                                                              lastSnapshotSize # 0]
               /\ lastSnapshotBuffer' = snapshot
               /\ pollTimers' = schedulePoll(pollTimers, pollIntervalMs)
               /\ UNCHANGED consecutiveFailures
       /\ UNCHANGED polling
       /\ UNCHANGED <<nameVars, now, preVars, fragVars, recVars, streamVars, snapVars>>

\* CameraMotionSensor.stop
stop ==
  /\ polling
  /\ polling' = FALSE
  /\ UNCHANGED <<MotionDetected, lastTriggerTime, lastSnapshotBuffer, lastSnapshotSize,
                 consecutiveFailures, pollTimers, pollCycles, motionEvents>>
  /\ UNCHANGED <<nameVars, now, preVars, fragVars, recVars, streamVars, snapVars>>

(***************************************************************************)
(* LoxonePlatform: generateUniqueName                                      *)
(***************************************************************************)
\* most generateUniqueName calls observed in one session
MaxCalls == 3

\* room and base arguments of the calls, unsanitized
RoomInputs == { <<"K">>, <<"(", "K", ")", "\t">> }
BaseInputs ==
  { <<"L">>, <<"(", "L", ")">>, <<"L", " ", "-", "1">>, <<"k", " ", "L">>, <<"K", "L">> }

\* the host's display-name limit
MaxNameLength == 64

\* base arguments at the limits: a name of MaxNameLength letters, and a name that
\* sanitizes to the empty string
LimitBaseInputs == { [i \in 1..MaxNameLength |-> "L"], <<"-", "-">> }

\* uuid arguments; NoKey is an absent (undefined or empty) uuid
Keys == {"u1", "u2"}
NoKey == ""

\* room || 'Unknown'
OrDefault(s, dflt) == IF s = <<>> THEN dflt ELSE s

cleanRoom(room) == clean(OrDefault(room, Unknown))
cleanBase(base) == clean(OrDefault(base, Unnamed))

alreadyPrefixed(room, base) ==
  \/ startsWith(toLowerCase(cleanBase(base)), toLowerCase(cleanRoom(room)))
  \/ startsWith(toLowerCase(cleanBase(base)), toLowerCase(cleanRoom(room)) \o <<" ">>)

baseName(room, base) ==
  IF alreadyPrefixed(room, base)
  THEN cleanBase(base)
  ELSE cleanRoom(room) \o <<" ">> \o cleanBase(base)

\* while (this.usedNames.has(finalName)) finalName = `${baseName} ${counter++}`
RECURSIVE NextFree(_, _, _, _)
NextFree(finalName, bName, counter, used) ==
  IF finalName \in used
  THEN NextFree(bName \o <<" ">> \o NumToStr(counter), bName, counter + 1, used)
  ELSE finalName

\* mutant: one suffix attempt instead of the loop
FindUniqueName_Once(bName, used) ==
  IF bName \in used THEN bName \o <<" ">> \o NumToStr(1) ELSE bName

\* mutant: every name is suffixed, also the first of its base
FindUniqueName_AlwaysSuffix(bName, used) ==
  NextFree(bName \o <<" ">> \o NumToStr(1), bName, 2, used)

FindUniqueName(bName, used) == NextFree(bName, bName, 1, used)

\* mutant: the stored mapping is never consulted
HasMapping_Never(uuid, map) == FALSE

\* uuid && this.accessoryNameMap.has(uuid)
HasMapping(uuid, map) == uuid # NoKey /\ uuid \in DOMAIN map

\* baseName of every input pair, computed once
BaseNameOf ==
  [room \in RoomInputs, base \in BaseInputs \cup LimitBaseInputs |-> baseName(room, base)]

\* mutant: sub-items are disambiguated like accessories
ReturnedName_SubItemSuffixed(bName, uuid, isSubItem) ==
  IF HasMapping(uuid, accessoryNameMap) THEN accessoryNameMap[uuid]
  ELSE FindUniqueName(bName, usedNames)

\* the name a call returns
ReturnedName(bName, uuid, isSubItem) ==
  IF isSubItem THEN bName
  ELSE IF HasMapping(uuid, accessoryNameMap) THEN accessoryNameMap[uuid]
  ELSE FindUniqueName(bName, usedNames)

generateUniqueName(room, base, uuid, isSubItem) ==
  LET bName == BaseNameOf[room, base]
      ret == ReturnedName(bName, uuid, isSubItem)
      reuse == isSubItem \/ HasMapping(uuid, accessoryNameMap)
  IN /\ Len(nameCalls) < MaxCalls
     /\ usedNames' = IF reuse THEN usedNames ELSE usedNames \cup {ret}
     /\ accessoryNameMap' =
          IF reuse \/ uuid = NoKey THEN accessoryNameMap
          ELSE (uuid :> ret) @@ accessoryNameMap
     /\ nameCalls' = Append(nameCalls, [uuid |-> uuid, isSubItem |-> isSubItem,
                                        cleanRoom |-> cleanRoom(room),
                                        cleanBase |-> cleanBase(base),
                                        base |-> bName, ret |-> ret])
     /\ UNCHANGED <<mapPass, passLog>>
     /\ UNCHANGED <<now, preVars, fragVars, recVars, streamVars, snapVars, motionVars>>

\* LoxoneInit: this.usedNames.clear(); this.accessoryNameMap.clear(); then it
\* waits for the structure file
LoxoneInit ==
  /\ usedNames' = {}
  /\ accessoryNameMap' = <<>>
  /\ nameCalls' = <<>>
  /\ mapPass' = "waitForLoxoneConfig"
  /\ UNCHANGED <<passLog, accVars>>
  /\ UNCHANGED <<now, preVars, fragVars, recVars, streamVars, snapVars, motionVars>>

NamesIdle ==
  /\ usedNames = {}
  /\ accessoryNameMap = <<>>
  /\ nameCalls = <<>>
  /\ mapPass = "none"
  /\ passLog = <<>>
  /\ accessories = {}
  /\ mappedAccessories = {}
  /\ passes = <<>>

InitNames ==
  /\ NamesIdle
  /\ now = 0
  /\ PreBufferIdle
  /\ FragmentsIdle
  /\ RecordingIdle
  /\ StreamingIdle
  /\ SnapshotIdle
  /\ MotionIdle

GenerateUniqueNameCall ==
  /\ \E room \in RoomInputs, base \in BaseInputs, uuid \in Keys \cup {NoKey},
        isSubItem \in BOOLEAN :
       generateUniqueName(room, base, uuid, isSubItem)
  /\ UNCHANGED accVars

NextNames == GenerateUniqueNameCall \/ LoxoneInit

SpecNames == InitNames /\ [][NextNames]_vars

\* the calls of a session whose devices carry names at the limits
GenerateLimitNameCall ==
  /\ \E room \in RoomInputs, base \in LimitBaseInputs, uuid \in Keys \cup {NoKey},
        isSubItem \in BOOLEAN :
       generateUniqueName(room, base, uuid, isSubItem)
  /\ UNCHANGED accVars

NextNameLimits == GenerateLimitNameCall \/ LoxoneInit

SpecNameLimits == InitNames /\ [][NextNameLimits]_vars

(***************************************************************************)
(* LoxonePlatform: the mapping pass                                        *)
(***************************************************************************)
\* most runs of mapLoxoneItems observed
MaxPasses == 2

\* display names of the accessories restored from the cache
DisplayNames == { <<"K", " ", "L">>, <<"K", " ", "L", " ", "1">> }

\* the cached accessories: one per device, the name it was given in an earlier run
CachedAccessories ==
  { [UUID |-> "u1", displayName |-> <<"K", " ", "L">>],
    [UUID |-> "u2", displayName |-> <<"K", " ", "L", " ", "1">>] }

\* configureAccessory: this.accessories.push(accessory);
\* this.usedNames.add(accessory.displayName); the host restores the cached
\* accessories before didFinishLaunching
configureAccessory ==
  /\ mapPass = "none"
  /\ \E accessory \in CachedAccessories :
       /\ accessory.displayName \in DisplayNames
       /\ accessories' = accessories \cup {accessory.UUID}
       /\ usedNames' = usedNames \cup {accessory.displayName}
  /\ UNCHANGED <<accessoryNameMap, nameCalls, mapPass, passLog, mappedAccessories, passes>>
  /\ UNCHANGED <<now, preVars, fragVars, recVars, streamVars, snapVars, motionVars>>

\* the constructor of an item's accessory class records the UUID of the accessory
\* it set up
setupAccessory(mapped, item) == mapped \cup {item.uuidAction}

\* the controls of the structure file: two devices of one room with the same name
Items == { [room |-> <<"K">>, name |-> <<"L">>, uuidAction |-> k] : k \in Keys }

\* mutant: the pass starts on the names of the earlier one
clear_Keep(collection, empty) == collection

\* Set.prototype.clear, Map.prototype.clear
clear(collection, empty) == empty

\* parseLoxoneConfig calls mapLoxoneItems once the structure file is there; its
\* first statements are this.usedNames.clear(); this.accessoryNameMap.clear()
mapLoxoneItems ==
  /\ mapPass = "waitForLoxoneConfig"
  /\ Len(passLog) < MaxPasses
  /\ usedNames' = clear(usedNames, {})
  /\ accessoryNameMap' = clear(accessoryNameMap, <<>>)
  /\ nameCalls' = <<>>
  /\ mapPass' = "mapLoxoneItems"
  /\ passLog' = Append(passLog, [enteredNames |-> usedNames # {},
                                 enteredKeys |-> accessoryNameMap # <<>>,
                                 usedNames |-> usedNames',
                                 accessoryNameMap |-> accessoryNameMap'])
  /\ passes' = Append(passes, [left |-> Items, pc |-> "loop", removed |-> {}])
  /\ UNCHANGED <<accessories, mappedAccessories>>
  /\ UNCHANGED <<now, preVars, fragVars, recVars, streamVars, snapVars, motionVars>>

\* an item of a running pass is constructed: new itemFile[constructorName](this, item)
\* resolves the names of its accessories; the loop awaits between items, so a
\* pass can still be running when LoxoneInit is entered again
MapItem ==
  \E p \in DOMAIN passes :
    \E item \in passes[p].left, constructed \in BOOLEAN, isSubItem \in BOOLEAN :
      /\ passes[p].pc = "loop"
      /\ IF constructed
         THEN /\ generateUniqueName(item.room, item.name, item.uuidAction, isSubItem)
              /\ mappedAccessories' = setupAccessory(mappedAccessories, item)
              /\ passes' = [passes EXCEPT ![p].left = @ \ {item}]
         ELSE \* the room or the type is excluded, or the import failed
              /\ passes' = [passes EXCEPT ![p].left = @ \ {item}]
              /\ UNCHANGED <<usedNames, accessoryNameMap, nameCalls, mapPass, passLog,
                             mappedAccessories>>
              /\ UNCHANGED <<now, preVars, fragVars, recVars, streamVars, snapVars,
                             motionVars>>
      /\ UNCHANGED accessories

\* a variant of removeUnmappedAccessories that tests the UUID the other way round
Unmapped_Inverted(restored, mapped) ==
  restored \cap mapped

\* the accessories removeUnmappedAccessories unregisters:
\* those with !this.mappedAccessories.has(accessory.UUID)
Unmapped(restored, mapped) ==
  restored \ mapped

\* the loop of a pass is over and the promise of mapLoxoneItems resolves:
\* .then(() => this.removeUnmappedAccessories())
removeUnmappedAccessories ==
  \E p \in DOMAIN passes :
    /\ passes[p].pc = "loop"
    /\ passes[p].left = {}
    /\ passes' = [passes EXCEPT ![p].pc = "done",
                                ![p].removed = Unmapped(accessories, mappedAccessories)]
    /\ mappedAccessories' = clear(mappedAccessories, {})
    /\ UNCHANGED <<usedNames, accessoryNameMap, nameCalls, mapPass, passLog, accessories>>
    /\ UNCHANGED <<now, preVars, fragVars, recVars, streamVars, snapVars, motionVars>>

InitMapping == InitNames

NextMapping == configureAccessory \/ LoxoneInit \/ mapLoxoneItems \/ MapItem

SpecMapping == InitMapping /\ [][NextMapping]_vars

\* the mapping passes with the cleanup that follows each
InitCleanup == InitNames

NextCleanup ==
  configureAccessory \/ LoxoneInit \/ mapLoxoneItems \/ MapItem \/ removeUnmappedAccessories

SpecCleanup == InitCleanup /\ [][NextCleanup]_vars

InitStartPreBuffer ==
  /\ NamesIdle
  /\ now = 0
  /\ PreBufferIdle
  /\ FragmentsIdle
  /\ RecordingIdle
  /\ StreamingIdle
  /\ SnapshotIdle
  /\ MotionIdle

NextStartPreBuffer ==
  \/ Tick(PreBufferInstants, <<nameVars, preVars, fragVars, recVars, streamVars, snapVars, motionVars>>)
  \/ StartPreBufferBegin
  \/ StartPreBufferResume
  \/ ReadAtom

SpecStartPreBuffer == InitStartPreBuffer /\ [][NextStartPreBuffer]_vars

\* a PreBuffer whose one startPreBuffer call has returned: insertion, eviction, replay
PreBufferStarted ==
  /\ prebufferDuration \in PrebufferDurations
  /\ prebufferFmp4 = <<>>
  /\ prebufferSession = 1
  /\ spawned = 1
  /\ startCalls = <<[pc |-> "returned", ret |-> 1]>>
  /\ arrived = <<>>
  /\ consumers = <<>>

InitPreBuffer ==
  /\ NamesIdle
  /\ now = 0
  /\ PreBufferStarted
  /\ FragmentsIdle
  /\ RecordingIdle
  /\ StreamingIdle
  /\ SnapshotIdle
  /\ MotionIdle

NextPreBuffer ==
  \/ Tick(PreBufferInstants, <<nameVars, preVars, fragVars, recVars, streamVars, snapVars, motionVars>>)
  \/ ReadAtom
  \/ getVideo
  \/ ConsumerConnect
  \/ ConsumerDisconnect

SpecPreBuffer == InitPreBuffer /\ [][NextPreBuffer]_vars

\* replay streams over the life of their safety timer
InitReplay == InitPreBuffer

NextReplay ==
  \/ Tick(ReplayInstants, <<nameVars, preVars, fragVars, recVars, streamVars, snapVars, motionVars>>)
  \/ ReadAtom
  \/ getVideo
  \/ ConsumerConnect
  \/ ConsumerDisconnect
  \/ SafetyTimeout

SpecReplay == InitReplay /\ [][NextReplay]_vars

\* consumeFragments on every sequence of atoms
InitFragments ==
  /\ NamesIdle
  /\ now = 0
  /\ PreBufferIdle
  /\ FragmentsIdle
  /\ RecordingIdle
  /\ StreamingIdle
  /\ SnapshotIdle
  /\ MotionIdle

NextFragments == ConsumeAtom

SpecFragments == InitFragments /\ [][NextFragments]_vars

\* parseFragmentedMP4 on every stream of boxes, cut at every byte
InitParse == InitFragments

NextParse == OpenReadable \/ ParseNext

SpecParse == InitParse /\ [][NextParse]_vars

\* parseFragmentedMP4 on the bytes of every well-formed stream, in every chunking
InitParseBytes == InitFragments

NextParseBytes == OpenByteReadable \/ PushChunk \/ EndReadable \/ ReadHeader \/ ReadData

SpecParseBytes == InitParseBytes /\ [][NextParseBytes]_vars

\* calls of listenServer; every step that can be taken is taken in the end, and the
\* environment decides which of 'listening' and 'error' a server emits
InitListen == InitFragments

NextListen == listenServer \/ ServerListen \/ ServerListening \/ ServerError

SpecListen == InitListen /\ [][NextListen]_vars

SpecListenFair ==
  /\ SpecListen
  /\ WF_vars(ServerListen)
  /\ WF_vars(ServerListening)
  /\ WF_vars(ServerError)

\* recording requests on one RecordingDelegate
InitRecording ==
  /\ NamesIdle
  /\ now = 0
  /\ PreBufferIdle
  /\ FragmentsIdle
  /\ RecordingIdle
  /\ StreamingIdle
  /\ SnapshotIdle
  /\ MotionIdle

NextRecording ==
  \/ updateRecordingConfiguration
  \/ handleRecordingStreamRequest
  \/ GeneratorStart
  \/ startPreBuffer
  \/ launchFragmentSession
  \/ Fragment
  \/ EndOfOutput
  \/ ConsumerNext
  \/ ProcessDies
  \/ ExitEvent
  \/ closeRecordingStream

SpecRecording == InitRecording /\ [][NextRecording]_vars

\* the same with the steps the event loop is bound to take: a generator that can go on
\* goes on, its caller keeps iterating it, and a terminated subprocess gets its 'exit'
\* event; nothing obliges a subprocess to terminate
FairRecording ==
  /\ WF_vars(GeneratorStart)
  /\ WF_vars(startPreBuffer)
  /\ WF_vars(launchFragmentSession)
  /\ WF_vars(Fragment)
  /\ WF_vars(EndOfOutput)
  /\ WF_vars(ConsumerNext)
  /\ WF_vars(ExitEvent)

SpecRecordingFair == InitRecording /\ [][NextRecording]_vars /\ FairRecording

\* streaming sessions on one streamingDelegate
InitStreaming ==
  /\ NamesIdle
  /\ now = 0
  /\ PreBufferIdle
  /\ FragmentsIdle
  /\ RecordingIdle
  /\ StreamingIdle
  /\ SnapshotIdle
  /\ MotionIdle

NextStreaming ==
  \/ prepareStream
  \/ startStream
  \/ StopRequest
  \/ SocketMessage
  \/ InactivityTimeout
  \/ SocketError

SpecStreaming == InitStreaming /\ [][NextStreaming]_vars

\* the same with the timers doing their work: an armed inactivity timer that is not
\* cleared fires; nothing obliges a liveness packet to arrive
SpecStreamingFair ==
  InitStreaming /\ [][NextStreaming]_vars /\ WF_vars(InactivityTimeout)

\* getSnapshot calls on one streamingDelegate
InitSnapshot ==
  /\ NamesIdle
  /\ now = 0
  /\ PreBufferIdle
  /\ FragmentsIdle
  /\ RecordingIdle
  /\ StreamingIdle
  /\ SnapshotIdle
  /\ MotionIdle

NextSnapshot ==
  \/ Tick(SnapshotInstants, <<nameVars, preVars, fragVars, recVars, streamVars, snapVars, motionVars>>)
  \/ getSnapshot
  \/ SnapshotExit
  \/ SnapshotError

SpecSnapshot == InitSnapshot /\ [][NextSnapshot]_vars

\* the motion sensor of a camera, beside recording requests that come and are closed
InitMotion ==
  /\ NamesIdle
  /\ now = 0
  /\ PreBufferIdle
  /\ FragmentsIdle
  /\ RecordingIdle
  /\ StreamingIdle
  /\ SnapshotIdle
  /\ MotionIdle

NextMotion ==
  \/ Tick(MotionInstants, <<nameVars, preVars, fragVars, recVars, streamVars, snapVars,
                            motionVars>>)
  \/ PollTimer
  \/ PollResume
  \/ stop
  \/ SnapshotExit
  \/ SnapshotError
  \/ updateRecordingConfiguration
  \/ handleRecordingStreamRequest
  \/ GeneratorStart
  \/ closeRecordingStream

SpecMotion == InitMotion /\ [][NextMotion]_vars

\* the sensor over a span long enough for its cooldown and its reset delay
MotionEventInstants == {0, 1000, 9000, 10000, 18000, 26000}

InitMotionEvents == InitMotion

NextMotionEvents ==
  \/ Tick(MotionEventInstants, <<nameVars, preVars, fragVars, recVars, streamVars,
                                 snapVars, motionVars>>)
  \/ PollTimer
  \/ PollResume
  \/ stop
  \/ SnapshotExit
  \/ SnapshotError

SpecMotionEvents == InitMotionEvents /\ [][NextMotionEvents]_vars

(***************************************************************************)
(* Claims about the motion sensor's onsets                                 *)
(***************************************************************************)
\* the times of the motion onsets, in order
Onsets == SelectSeq(motionEvents, LAMBDA e : e.call = "triggerMotion")

\* C28: any two consecutive motion onsets, on the pixel path or on the size fallback
\* path, are more than 8000 ms apart.
C28_OnsetsApartByCooldown ==
  \A k \in 1..(Len(Onsets) - 1) : Onsets[k + 1].time - Onsets[k].time > cooldownMs

\* C28 witness: the sensor has signalled two onsets, the second by a poll cycle that
\* started after the first
C28_Witness ==
  /\ Len(Onsets) = 2
  /\ \E c \in DOMAIN pollCycles :
       /\ pollCycles[c].compared
       /\ pollCycles[c].start > Onsets[1].time
       /\ pollCycles[c].pc = "done"

\* poll cycle c, started while the sensor was polling, comes to its end in this step
CycleEnds(c) ==
  /\ pollCycles'[c].polling
  /\ pollCycles'[c].pc = "done"
  /\ c \in DOMAIN pollCycles => pollCycles[c].pc # "done"

\* C29: once 15000 ms have passed since the last trigger with no new trigger, a poll
\* cycle sets MotionDetected back to false, whether or not it obtained and compared a
\* snapshot.
C29_ResetOnceDelayPassed ==
  [][\A c \in DOMAIN pollCycles' :
       (/\ CycleEnds(c)
        /\ MotionDetected
        /\ now - lastTriggerTime > resetDelayMs
        /\ lastTriggerTime' = lastTriggerTime)
         => ~MotionDetected']_vars

(***************************************************************************)
(* Claims about generateUniqueName                                         *)
(***************************************************************************)
CallIdx == 1..Len(nameCalls)
TopLevel(i) == ~nameCalls[i].isSubItem
Keyed(i) == nameCalls[i].uuid # NoKey
\* call i is the first top-level call of its uuid
FirstResolution(i) ==
  /\ TopLevel(i) /\ Keyed(i)
  /\ \A h \in 1..(i - 1) : ~(TopLevel(h) /\ nameCalls[h].uuid = nameCalls[i].uuid)
\* the name base of call i was handed out by an earlier top-level call
IssuedBefore(i) == \E h \in 1..(i - 1) : TopLevel(h) /\ nameCalls[h].ret = nameCalls[i].base

\* C1 as stated: within a session, every later call with the same uuid returns the name
\* the first call with that uuid returned, whatever room, base and isSubItem are.
C1_AnyCallStable ==
  \A i, j \in CallIdx :
    (i < j /\ Keyed(i) /\ nameCalls[i].uuid = nameCalls[j].uuid)
      => nameCalls[j].ret = nameCalls[i].ret

\* C1 amended: within a session, once a call with isSubItem false has returned a name n
\* for uuid k, every later call with uuid k and isSubItem false returns n, whatever its
\* room and base are.
C1_TopLevelStable ==
  \A i, j \in CallIdx :
    (i < j /\ Keyed(i) /\ TopLevel(i) /\ TopLevel(j)
       /\ nameCalls[i].uuid = nameCalls[j].uuid)
      => nameCalls[j].ret = nameCalls[i].ret

\* C1 witness: a uuid was resolved at top level and resolved again with another base
C1_Witness ==
  \E i, j \in CallIdx :
    /\ i < j /\ Keyed(i) /\ TopLevel(i) /\ TopLevel(j)
    /\ nameCalls[i].uuid = nameCalls[j].uuid
    /\ nameCalls[i].base # nameCalls[j].base
    /\ nameCalls[j].ret = nameCalls[i].ret

\* C2: after any sequence of top-level calls, no two distinct uuids are mapped to the
\* same name, and the name returned for a uuid resolved for the first time differs
\* from every name a top-level call returned earlier in the session.
C2_GloballyUnique ==
  /\ \A k1, k2 \in DOMAIN accessoryNameMap :
       k1 # k2 => accessoryNameMap[k1] # accessoryNameMap[k2]
  /\ \A j \in CallIdx :
       FirstResolution(j) =>
         \A i \in 1..(j - 1) : TopLevel(i) => nameCalls[i].ret # nameCalls[j].ret

\* C2 witness: two uuids with the same base name, the second resolved to a suffixed name
C2_Witness ==
  /\ Cardinality(DOMAIN accessoryNameMap) = 2
  /\ \E i, j \in CallIdx :
       /\ i < j /\ FirstResolution(i) /\ FirstResolution(j)
       /\ nameCalls[i].base = nameCalls[j].base
       /\ nameCalls[j].ret # nameCalls[j].base

\* call i is the first resolution, in session order, among the uuids whose base name
\* is that of call i, and another uuid with that base name is resolved later (call j)
FirstOfPair(i, j) ==
  /\ i < j /\ FirstResolution(i) /\ FirstResolution(j)
  /\ nameCalls[i].uuid # nameCalls[j].uuid
  /\ nameCalls[i].base = nameCalls[j].base
  /\ \A h \in 1..(i - 1) : FirstResolution(h) => nameCalls[h].base # nameCalls[i].base

\* C3 as stated: of two distinct uuids with the same base name, the returned names differ
\* and the uuid resolved first always receives the base name without a suffix.
C3_FirstUndecorated ==
  \A i, j \in CallIdx :
    FirstOfPair(i, j) =>
      /\ nameCalls[i].ret # nameCalls[j].ret
      /\ nameCalls[i].ret = nameCalls[i].base

\* C3 amended: of two distinct uuids with the same base name, the returned names differ,
\* and the uuid resolved first receives the base name without a suffix unless that very
\* name was already issued earlier in the session.
C3_FirstUndecoratedUnlessIssued ==
  \A i, j \in CallIdx :
    FirstOfPair(i, j) =>
      /\ nameCalls[i].ret # nameCalls[j].ret
      /\ ~IssuedBefore(i) => nameCalls[i].ret = nameCalls[i].base

\* C3 witness: two uuids share a base name; the first got it undecorated, the second not
C3_Witness ==
  \E i, j \in CallIdx :
    /\ FirstOfPair(i, j) /\ ~IssuedBefore(i)
    /\ nameCalls[i].ret = nameCalls[i].base
    /\ nameCalls[j].ret # nameCalls[j].base

\* the step is a generateUniqueName call with isSubItem = true
SubItemCallStep ==
  /\ Len(nameCalls') = Len(nameCalls) + 1
  /\ nameCalls'[Len(nameCalls')].isSubItem

\* C21: a call with isSubItem = true returns the sanitized, room-prefixed name without
\* a suffix, also when that name was already issued, and it leaves the issued-name set
\* and the uuid-to-name map as they were.
C21_SubItemNeverDisambiguated ==
  /\ [](\A i \in CallIdx : ~TopLevel(i) => nameCalls[i].ret = nameCalls[i].base)
  /\ [][SubItemCallStep =>
         /\ usedNames' = usedNames
         /\ accessoryNameMap' = accessoryNameMap]_vars

\* C21 witness: a sub-item call returned a name that an earlier top-level call had
\* been given, with a uuid that no top-level call had resolved
C21_Witness ==
  \E i, j \in CallIdx :
    /\ i < j /\ TopLevel(i) /\ ~TopLevel(j) /\ Keyed(j)
    /\ nameCalls[j].ret = nameCalls[i].ret
    /\ nameCalls[j].ret \in usedNames
    /\ nameCalls[j].uuid \notin DOMAIN accessoryNameMap

\* call i hands out a new name: top level, and no stored mapping of its uuid
Issuing(i) == TopLevel(i) /\ (Keyed(i) => FirstResolution(i))
\* the names handed out before call i
IssuedTo(i) == { nameCalls[h].ret : h \in { g \in 1..(i - 1) : TopLevel(g) } }
Suffixed(bName, n) == bName \o <<" ">> \o NumToStr(n)

\* C22: when a top-level name collides with issued names, the suffixes are " 2", " 3",
\* ...: the call receives base + " n" for the least n >= 2 that is not issued yet.
C22_SuffixesStartAtTwo ==
  \A j \in CallIdx :
    (Issuing(j) /\ nameCalls[j].ret # nameCalls[j].base) =>
      \E n \in 2..(MaxCalls + 1) :
        /\ nameCalls[j].ret = Suffixed(nameCalls[j].base, n)
        /\ \A m \in 2..(n - 1) : Suffixed(nameCalls[j].base, m) \in IssuedTo(j)

\* the sanitized base starts with the sanitized room as a whole word, case-insensitively
WholeWordPrefixed(cRoom, cBase) ==
  \/ toLowerCase(cBase) = toLowerCase(cRoom)
  \/ startsWith(toLowerCase(cBase), toLowerCase(cRoom) \o <<" ">>)

\* C23: the name of every call is built on the sanitized base, prefixed with the
\* sanitized room and a space exactly when the base does not already start with the
\* room as a case-insensitive whole-word prefix.
C23_PrefixedUnlessWholeWordPrefix ==
  \A i \in CallIdx :
    nameCalls[i].base =
      IF WholeWordPrefixed(nameCalls[i].cleanRoom, nameCalls[i].cleanBase)
      THEN nameCalls[i].cleanBase
      ELSE nameCalls[i].cleanRoom \o <<" ">> \o nameCalls[i].cleanBase

\* letters, digits, single spaces and apostrophes only, no space at either end
HostLegalText(name) ==
  /\ \A k \in 1..Len(name) :
       IsLetter(name[k]) \/ IsDigit(name[k]) \/ name[k] = " " \/ name[k] = "'"
  /\ \A k \in 1..(Len(name) - 1) : ~(name[k] = " " /\ name[k + 1] = " ")
  /\ name # <<>> => (name[1] # " " /\ name[Len(name)] # " ")

\* the name begins with the room twice in a row
RoomTwice(name, cRoom) ==
  LET r == toLowerCase(cRoom) IN
  /\ r # <<>>
  /\ \/ toLowerCase(name) = r \o <<" ">> \o r
     \/ startsWith(toLowerCase(name), r \o <<" ">> \o r \o <<" ">>)

\* C24: every name returned by generateUniqueName is host-legal: letters, digits, single
\* spaces and apostrophes only, no leading or trailing whitespace, not the room name
\* twice in a row, and at most 64 units long with its suffix.
C24_ReturnedNameIsHostLegal ==
  \A i \in CallIdx :
    /\ HostLegalText(nameCalls[i].ret)
    /\ ~RoomTwice(nameCalls[i].ret, nameCalls[i].cleanRoom)
    /\ Len(nameCalls[i].ret) <= MaxNameLength

(***************************************************************************)
(* Claims about PreBuffer                                                  *)
(***************************************************************************)
\* the last n atoms that arrived
LastArrived(n) == SubSeq(arrived, Len(arrived) - n + 1, Len(arrived))

\* n atoms can be kept after the latest insertion: no more than MAX_FRAGMENTS, and each
\* no older than the retention window, counted from the timestamp of the insertion
Keepable(n) ==
  /\ n <= MAX_FRAGMENTS
  /\ \A i \in 1..n :
       LastArrived(n)[i].time >= arrived[Len(arrived)].time - prebufferDuration

Times(buf) == [i \in 1..Len(buf) |-> buf[i].time]

\* C4: after every insertion the retained fragments are exactly the longest suffix of
\* the arrival sequence whose fragments all have timestamp >= (timestamp of the
\* insertion - retention window) and whose length is at most MAX_FRAGMENTS.
C4_RetainedIsLongestSuffix ==
  arrived # <<>> =>
    \E n \in 0..Len(arrived) :
      /\ Keepable(n)
      /\ \A m \in (n + 1)..Len(arrived) : ~Keepable(m)
      /\ prebufferFmp4 = LastArrived(n)

\* C4 witness: window 1000 and timestamps 0, 500, 1200, 1800 retain {1200, 1800}
C4_Witness ==
  /\ prebufferDuration = 1000
  /\ Times(arrived) = <<0, 500, 1200, 1800>>
  /\ Times(prebufferFmp4) = <<1200, 1800>>

\* C9: under any interleaving of startPreBuffer calls at most one transcoding
\* subprocess is spawned and every call returns the same session handle.
C9_OneSubprocessOneSession ==
  /\ spawned <= 1
  /\ \A c, d \in 1..Len(startCalls) :
       (startCalls[c].pc = "returned" /\ startCalls[d].pc = "returned")
         => startCalls[c].ret = startCalls[d].ret

\* the fragments from the first moof on
RECURSIVE FromFirstMoof(_)
FromFirstMoof(buf) ==
  IF buf = <<>> \/ Head(buf).type = "moof" THEN buf ELSE FromFirstMoof(Tail(buf))

\* C10: the history written to a consumer is, in buffer order, the retained fragments
\* with timestamp >= now - requestedWindowMs from the first moof of that window on, so
\* the first history fragment is a moof and never an orphaned mdat.
C10_HistoryStartsAtFirstMoof ==
  \A c \in 1..Len(consumers) :
    consumers[c].pc # "listening" =>
      /\ consumers[c].history =
           FromFirstMoof(SelectSeq(consumers[c].seen,
             LAMBDA f : f.time >= consumers[c].connectedAt - consumers[c].requested))
      /\ consumers[c].history # <<>> => consumers[c].history[1].type = "moof"

Served(c) == consumers[c].pc \in {"connected", "closed"}
\* the fragments inserted before consumer c connected, and after
InsertedBefore(c) == SubSeq(arrived, 1, consumers[c].inserted)
InsertedAfter(c) == SubSeq(arrived, consumers[c].inserted + 1, Len(arrived))
InWindow(c, fragments) ==
  SelectSeq(fragments,
            LAMBDA f : f.time >= consumers[c].connectedAt - consumers[c].requested)
IsPrefix(s, t) == Len(s) <= Len(t) /\ s = SubSeq(t, 1, Len(s))
\* the buffer once the insertions of the given fragments have completed
RECURSIVE BufferAfter(_)
BufferAfter(fragments) ==
  IF fragments = <<>> THEN <<>>
  ELSE handleAtom(BufferAfter(SubSeq(fragments, 1, Len(fragments) - 1)),
                  fragments[Len(fragments)].type, fragments[Len(fragments)].time)
\* what consumer c was written after its history: every fragment inserted since it
\* connected, in arrival order, up to its disconnection
LiveInOrder(c) ==
  IF consumers[c].pc = "connected"
  THEN consumers[c].live = InsertedAfter(c)
  ELSE IsPrefix(consumers[c].live, InsertedAfter(c))

\* C27 as stated: every fragment inserted before the consumer connects and inside the
\* requested window is written exactly once as history, every fragment inserted after
\* it connects exactly once as live data, all in arrival order.
C27_EveryInsertedFragmentOnce ==
  \A c \in 1..Len(consumers) :
    Served(c) =>
      /\ consumers[c].history = InWindow(c, InsertedBefore(c))
      /\ LiveInOrder(c)

\* C27 amended: the consumer observes the buffer as of the last completed insertion:
\* every fragment which that buffer retains and which is inside the requested window
\* is written exactly once as history, every fragment inserted after the consumer
\* connects exactly once as live data, all in arrival order.
C27_EveryRetainedFragmentOnce ==
  \A c \in 1..Len(consumers) :
    Served(c) =>
      /\ consumers[c].seen = BufferAfter(InsertedBefore(c))
      /\ consumers[c].history = InWindow(c, consumers[c].seen)
      /\ LiveInOrder(c)

\* C27 witness: a connected consumer whose history is what the buffer retained of a
\* longer run of insertions, one of them evicted inside the requested window, and
\* which was then written live fragments
C27_Witness ==
  \E c \in 1..Len(consumers) :
    /\ consumers[c].pc = "connected"
    /\ consumers[c].history # <<>>
    /\ consumers[c].live # <<>>
    /\ Len(consumers[c].history) < Len(InWindow(c, InsertedBefore(c)))

\* C26: a replay stream writes the arriving fragments to its consumer until the
\* consumer disconnects or the 30 s safety timeout has fired, and none after either:
\* a disconnected consumer is written nothing more, and no fragment is written to a
\* consumer whose safety timeout has fired.
C26_NoWriteAfterDisconnectOrTimeout ==
  /\ [](\A c \in 1..Len(consumers) : consumers[c].late = <<>>)
  /\ [][\A c \in 1..Len(consumers) :
          consumers[c].pc = "closed" => consumers'[c].live = consumers[c].live]_vars

(***************************************************************************)
(* Claims about consumeFragments                                           *)
(***************************************************************************)
\* the moof an mdat at position j pairs with: the latest moof before j that no mdat
\* in between has consumed; 0 if there is none (the mdat is orphaned)
UnconsumedMoof(j) ==
  LET moofs == {i \in 1..(j - 1) :
                  /\ fragIn[i] = "moof"
                  /\ \A h \in (i + 1)..(j - 1) : fragIn[h] \notin {"moof", "mdat"}}
  IN IF moofs = {} THEN 0 ELSE CHOOSE i \in moofs : TRUE

PacketsWith(atom) ==
  {p \in 1..Len(fragPackets) : \E k \in 1..Len(fragPackets[p]) : fragPackets[p][k] = atom}

\* C5: each mdat that follows a not-yet-consumed moof yields exactly one packet, equal
\* to that moof followed by the mdat; an mdat with no unconsumed moof before it yields
\* no packet and is never delivered in any packet.
C5_MoofMdatPairing ==
  \A j \in 1..Len(fragIn) :
    fragIn[j] = "mdat" =>
      IF UnconsumedMoof(j) # 0
      THEN Cardinality({p \in 1..Len(fragPackets) :
                         fragPackets[p] = <<UnconsumedMoof(j), j>>}) = 1
      ELSE PacketsWith(j) = {}

\* the types of the boxes of packet p, in order
PacketTypes(p) == [k \in 1..Len(fragPackets[p]) |-> fragIn[fragPackets[p][k]]]

\* C25: the first packet of a stream is the ftyp box followed by the moov box, and it
\* is produced once: no later packet contains a header box, nor a box that an earlier
\* packet delivered.
C25_HeaderPacketFirstAndOnce ==
  /\ fragPackets # <<>> => PacketTypes(1) = <<"ftyp", "moov">>
  /\ \A p \in 2..Len(fragPackets) :
       /\ \A k \in 1..Len(fragPackets[p]) : PacketTypes(p)[k] \notin {"ftyp", "moov"}
       /\ \A k \in 1..Len(fragPackets[p]) : \A q \in 1..(p - 1) :
            q \notin PacketsWith(fragPackets[p][k])

\* the boxes of the stream that lie whole before the cut
RECURSIVE WholeBoxes(_, _)
WholeBoxes(boxes, cut) ==
  IF boxes = <<>> \/ cut < HeaderLength + boxes[1] THEN 0
  ELSE 1 + WholeBoxes(Tail(boxes), cut - HeaderLength - boxes[1])

\* C30: on a stream that ends inside a box header or inside a box payload,
\* parseFragmentedMP4 yields the complete boxes before the truncation and then
\* completes normally; it never throws into the loop that consumes it.
C30_TruncationEndsNormally ==
  /\ parseEnd \notin {"throw", "pending"}
  /\ \A k \in 1..Len(parseYield) :
       /\ parseYield[k].header = HeaderLength
       /\ parseYield[k].data = parseYield[k].length
  /\ parseEnd = "return" => Len(parseYield) = WholeBoxes(parseStream, parseCut)

\* the bytes the atoms yielded so far put back together
AtomBytes == Flatten([k \in DOMAIN byteAtoms |-> byteAtoms[k].header \o byteAtoms[k].data])

\* C31: for every concatenation of well-formed boxes, parseFragmentedMP4 yields one
\* atom per box in stream order, each with type equal to bytes 4..7 of its header and
\* data of exactly (declared length - 8) bytes, and header + data of all atoms put
\* together is the input byte for byte; the generator then completes.
C31_AtomsReproduceStream ==
  /\ bytePc # "throw"
  /\ Len(byteAtoms) <= Len(byteBoxes)
  /\ \A k \in DOMAIN byteAtoms :
       /\ byteAtoms[k].header = SubSeq(byteBoxes[k], 1, HeaderLength)
       /\ byteAtoms[k].type = SubSeq(byteBoxes[k], SizeFieldLength + 1, HeaderLength)
       /\ byteAtoms[k].length = byteBoxes[k][SizeFieldLength] - HeaderLength
       /\ Len(byteAtoms[k].data) = byteAtoms[k].length
       /\ byteAtoms[k].header \o byteAtoms[k].data = byteBoxes[k]
  /\ bytePc = "return" => AtomBytes = Flatten(byteBoxes)

\* C31 witness: a stream of two boxes with payloads has been parsed to its end
C31_Witness ==
  /\ bytePc = "return"
  /\ Len(byteAtoms) = 2
  /\ \A k \in 1..2 : byteAtoms[k].data # <<>>
  /\ byteAtoms[1].type # byteAtoms[2].type

\* whether call c of listenServer has returned a port or thrown to its caller
ListenDone(c) ==
  c \in DOMAIN listenCalls /\ listenCalls[c].pc \in {"returned", "thrown"}

\* C32: listenServer terminates: it returns the port the server listens on or, when
\* binding keeps failing, gives up after a bounded number of attempts and throws.
C32_ListenServerTerminates ==
  \A c \in 1..MaxListenCalls :
    (c \in DOMAIN listenCalls) ~> ListenDone(c)

\* C33: a fragment whose age at an insertion equals the retention window exactly is
\* evicted: after every insertion each retained fragment is younger than the window.
C33_EdgeFragmentEvicted ==
  arrived # <<>> =>
    \A i \in DOMAIN prebufferFmp4 :
      arrived[Len(arrived)].time - prebufferFmp4[i].time < prebufferDuration

\* the poll cycles that are awaiting their snapshot
RunningCycles == { c \in DOMAIN pollCycles : pollCycles[c].pc = "getSnapshot" }

\* the cycles pending in a timer or running
PendingOrRunning == Len(pollTimers) + Cardinality(RunningCycles)

\* C34: while polling is enabled every poll cycle, whatever its outcome, schedules
\* exactly one next cycle, so at most one cycle is pending or running at any time and
\* the loop never stops on a failed cycle; after stop() no further cycle takes a
\* snapshot.
C34_OneCyclePendingOrRunning ==
  /\ [](/\ PendingOrRunning <= 1
        /\ (polling => PendingOrRunning = 1)
        /\ \A c \in DOMAIN pollCycles :
             /\ (pollCycles[c].polling /\ pollCycles[c].pc = "done")
                  => pollCycles[c].scheduled = 1
             /\ (~pollCycles[c].polling) => pollCycles[c].snapshot = 0)
  /\ [][~polling => Len(snapshots') = Len(snapshots)]_vars

\* C34 witness: a cycle was skipped for a recording, a cycle got no snapshot, and a
\* later cycle took a snapshot again
C34_Witness ==
  \E c, d, e \in DOMAIN pollCycles :
    /\ pollCycles[c].hksv /\ pollCycles[c].scheduled = 1
    /\ pollCycles[d].snapshot # 0
    /\ snapshots[pollCycles[d].snapshot].result = 0
    /\ pollCycles[d].pc = "done"
    /\ e > d
    /\ pollCycles[e].snapshot # 0

\* C35: under any interleaving of recording requests exactly one PreBuffer is created
\* and started, and no request asks it for a replay stream (getVideo) before the
\* prebuffer session has been established.
C35_NoGetVideoBeforeSession ==
  \A g \in DOMAIN streams :
    /\ streams[g].pc = "getVideo" => delegatePreBufferSession
    /\ Cardinality({ h \in DOMAIN streams : streams[h].pc = "startPreBuffer" }) <= 1

\* removeUnmappedAccessories of pass p runs in this step
CleanupStep(p) ==
  /\ p \in DOMAIN passes
  /\ passes[p].pc = "loop"
  /\ passes'[p].pc = "done"

\* C36: removeUnmappedAccessories runs only after every item of the pass has been
\* mapped, unregisters exactly the restored accessories whose UUID is not in
\* mappedAccessories, keeps every accessory whose UUID is in it, and leaves
\* mappedAccessories empty.
C36_CleanupRemovesExactlyUnmapped ==
  [][\A p \in DOMAIN passes' :
       CleanupStep(p) =>
         /\ passes[p].left = {}
         /\ \A UUID \in accessories :
              UUID \in passes'[p].removed <=> UUID \notin mappedAccessories
         /\ passes'[p].removed \subseteq accessories
         /\ accessories' = accessories
         /\ mappedAccessories' = {}]_vars

\* C36 witness: a pass over two restored accessories has ended whose cleanup kept one
\* of them and unregistered the other
C36_Witness ==
  \E p \in DOMAIN passes :
    /\ passes[p].pc = "done"
    /\ accessories = {"u1", "u2"}
    /\ Cardinality(passes[p].removed) = 1
    /\ mappedAccessories = {}

\* a generator other than g moves on in this step while g stands still
OtherGeneratorSteps(g) ==
  /\ streams'[g] = streams[g]
  /\ \E h \in DOMAIN streams : h # g /\ streams'[h].pc # streams[h].pc

\* C37: the teardown of an earlier recording stream never removes the registry
\* entries of a later stream that reuses the same streamId: the controller and the
\* subprocess a running generator has registered stay registered while another
\* generator ends.
C37_TeardownSparesLaterStream ==
  [][\A s \in StreamIds, g \in DOMAIN streams :
       OtherGeneratorSteps(g) =>
         /\ streamAbortControllers[s] = g => streamAbortControllers'[s] # 0
         /\ activeFFmpegProcesses[s] = g => activeFFmpegProcesses'[s] # 0]_vars

\* C38: every session entry created by prepareStream is removed in the end: after
\* stopStream(sessionId) neither pendingSessions nor ongoingSessions holds an entry
\* for sessionId, also for a session that was prepared but never started.
C38_StopRemovesEveryEntry ==
  [][stopCalls'.n = stopCalls.n + 1 =>
       /\ stopCalls'.sessionId \notin pendingSessions'
       /\ ongoingSessions'[stopCalls'.sessionId] = 0]_vars

\* what consumer c has been written: the history, then the live fragments
Written(c) == consumers[c].history \o consumers[c].live

\* C39: every replay stream begins with the source stream's initialisation boxes,
\* ftyp and then moov, before any moof or mdat, however long the prebuffer has been
\* running and whatever has been evicted when the consumer connects.
C39_ReplayBeginsWithInitBoxes ==
  \A c \in DOMAIN consumers :
    /\ Len(Written(c)) >= 1 => Written(c)[1].type = "ftyp"
    /\ Len(Written(c)) >= 2 => Written(c)[2].type = "moov"

\* C40: for every snapshot request the callback is invoked exactly once, whatever
\* combination and order of the subprocess's 'error' and 'exit' events occurs, and a
\* failed request leaves the cached snapshot and its timestamp unchanged.
C40_OneCallbackAndFailureKeepsCache ==
  /\ [](\A k \in DOMAIN snapshots :
          /\ snapshots[k].callbacks <= 1
          /\ (snapshots[k].exit \/ snapshots[k].error) => snapshots[k].callbacks = 1)
  /\ [][\A k \in DOMAIN snapshots :
          (snapshots'[k] # snapshots[k] /\ snapshots'[k].result = 0)
            => cachedSnapshot' = cachedSnapshot /\ cachedAt' = cachedAt]_vars

(***************************************************************************)
(* Claims about the recording streams                                      *)
(***************************************************************************)
\* C6: once closeRecordingStream has aborted the controller of a recording stream, the
\* generator of that stream yields no further packet: every packet a generator has
\* yielded was yielded while its abort signal was not set.
C6_NoPacketAfterClose ==
  \A g \in DOMAIN streams :
    \A k \in 1..Len(streams[g].packets) : ~streams[g].packets[k].aborted

\* C11: a recording request made while no recording configuration is set yields exactly
\* one packet, with empty data and isLast true, and spawns no subprocess.
C11_MissingConfigYieldsTerminalPacket ==
  \A g \in DOMAIN streams :
    streams[g].config = "missing" =>
      /\ Len(streams[g].packets) = 1
      /\ streams[g].packets[1].isLast
      /\ streams[g].packets[1].empty
      /\ ~streams[g].cp.spawned

\* C13: a recording generator whose subprocess died mid-stream, wherever its output
\* stopped, and that was not cancelled, ends with a final packet whose isLast is true.
C13_DeathEndsWithLastPacket ==
  \A g \in DOMAIN streams :
    (streams[g].pc = "done" /\ streams[g].cp.spawned /\ streams[g].cp.eof
       /\ ~streams[g].aborted)
      => /\ streams[g].packets # <<>>
         /\ streams[g].packets[Len(streams[g].packets)].isLast

\* C14: the teardown of a recording stream always completes: a generator that waits in
\* the finally clause of consumeFragments for the exit of its subprocess eventually
\* gets past it, also when the subprocess does not react to SIGTERM.
C14_TeardownCompletes ==
  \A g \in 1..MaxRequests :
    (g \in DOMAIN streams /\ streams[g].pc = "awaitExit")
      ~> (g \in DOMAIN streams /\ streams[g].pc \in {"done", "yieldedLast"})

\* the registries hold nothing of generator g
NoEntriesOf(g) ==
  /\ streamAbortControllers[streams[g].streamId] # g
  /\ activeFFmpegProcesses[streams[g].streamId] # g

\* C15: once a recording stream has ended, because its generator has finished (after
\* the end of the subprocess output or after an error) or because closeRecordingStream
\* has cancelled it, neither activeFFmpegProcesses nor streamAbortControllers holds an
\* entry of that stream.
C15_EndedStreamHasNoEntries ==
  \A g \in DOMAIN streams :
    (streams[g].pc = "done" \/ streams[g].aborted) => NoEntriesOf(g)

(***************************************************************************)
(* Claims about the streaming sessions and the snapshot cache              *)
(***************************************************************************)
\* what stopStream releases: per session object its socket, its process, the number of
\* releases, and whether its timer was cleared
Resources ==
  [o \in DOMAIN sessionObjects |->
     <<sessionObjects[o].socket, sessionObjects[o].mainProcess,
       sessionObjects[o].releases, sessionObjects[o].timeout = "cleared">>]

\* C7: stopStream on a session that was never started or was stopped since its last
\* start is a no-op: it clears no timer, closes no socket, stops no process, changes
\* neither session table and raises no error.
C7_StopOfUnknownIsNoOp ==
  [][(stopCalls'.n = stopCalls.n + 1 /\ ~stopCalls'.wasLive)
       => (/\ Resources' = Resources
           /\ UNCHANGED <<pendingSessions, ongoingSessions, streamError>>)]_vars

\* a second consecutive stopStream for a session that was started and stopped
C7_Witness ==
  /\ stopCalls.n >= 2
  /\ ~stopCalls.wasLive
  /\ \E o \in DOMAIN sessionObjects :
       /\ sessionObjects[o].sessionId = stopCalls.sessionId
       /\ sessionObjects[o].releases = 1

Ongoing(o) ==
  /\ o \in DOMAIN sessionObjects
  /\ ongoingSessions[sessionObjects[o].sessionId] = o

\* C16: an Active session to which no liveness packet comes any more is eventually
\* stopped from the server side and leaves ongoingSessions (the bound on the number
\* of stopStream invocations apart).
C16_SilentSessionIsStopped ==
  \A o \in 1..MaxSessions :
    Ongoing(o) ~> (~Ongoing(o) \/ stopCalls.n = MaxStops)

\* session id has been Active at some time
WasActive(id) ==
  \E o \in DOMAIN sessionObjects : sessionObjects[o].sessionId = id

\* C17: no session id is in pendingSessions and in ongoingSessions at the same time; a
\* session id that has been Active (or is Stopped) is never in pendingSessions again;
\* and a session id gets an entry in ongoingSessions only in a step that takes it out of
\* pendingSessions.
C17_NoWayBackToPending ==
  /\ [](\A id \in SessionIds : ~(id \in pendingSessions /\ ongoingSessions[id] # 0))
  /\ [](\A id \in SessionIds : WasActive(id) => id \notin pendingSessions)
  /\ [][\A id \in SessionIds :
          (ongoingSessions'[id] # 0 /\ ongoingSessions'[id] # ongoingSessions[id])
            => (id \in pendingSessions /\ id \notin pendingSessions')]_vars

C8_CacheServedWithinTtl ==
  \A k \in DOMAIN snapshots :
    LET call == snapshots[k]
        cached == call.cachedSnapshot # 0
        age == call.start - call.cachedAt
    IN /\ (cached /\ age < 5000) => (~call.spawned /\ call.result = call.cachedSnapshot)
       /\ (cached /\ age >= 5000) => call.spawned
       /\ ~call.spawned => (cached /\ age < 5000)

\* one capture, a call inside the TTL served from the cache, and a call at the TTL
\* that spawned again
C8_Witness ==
  \E i, j \in DOMAIN snapshots :
    /\ ~snapshots[i].spawned
    /\ snapshots[i].result # 0
    /\ snapshots[j].spawned
    /\ snapshots[j].cachedSnapshot = snapshots[i].result
    /\ snapshots[j].start - snapshots[j].cachedAt = 5000

(***************************************************************************)
(* Claims about CameraMotionSensor                                         *)
(***************************************************************************)
\* C19: a poll cycle that begins, polling enabled, while a recording stream is
\* registered with the recording delegate requests no snapshot, makes no comparison,
\* and schedules one next cycle.
C19_NoPollWhileRecording ==
  \A c \in DOMAIN pollCycles :
    (pollCycles[c].polling /\ pollCycles[c].hksv)
      => /\ pollCycles[c].snapshot = 0
         /\ ~pollCycles[c].compared
         /\ pollCycles[c].pc = "done"
         /\ pollCycles[c].scheduled = 1
         /\ \A k \in DOMAIN snapshots : snapshots[k].start # pollCycles[c].start

\* a cycle began while a recording stream was registered, after a cycle that polled
C19_Witness ==
  \E c, d \in DOMAIN pollCycles :
    /\ c < d
    /\ pollCycles[c].snapshot # 0
    /\ pollCycles[d].polling
    /\ pollCycles[d].hksv
    /\ pollTimers # <<>>

====
